---- MODULE Spec2Model ----
(***************************************************************************)
(* A model of the structural section design scripts: beam bending and the  *)
(* bar search of beam_bending.py, beam shear (beam_shear.py), the column   *)
(* of column_design.py, the slab bar search of slab_design.py and the      *)
(* steel profile search of steel_beam.py.                                  *)
(*                                                                         *)
(* The scripts compute in floating point.  The model computes in exact     *)
(* integer arithmetic on scaled quantities; every division that the model  *)
(* cannot carry exactly is floored at the resolution given here.           *)
(*                                                                         *)
(*   lengths                    mm            b_mm, h_mm, cover, d_mm      *)
(*   spans                      0.1 m         span                         *)
(*   line loads g, q            0.01 kN/m                                  *)
(*   design load q_Ed           1e-4 kN/m                                  *)
(*   moments M_Ed               1e-4 kNm                                   *)
(*   forces  V_Ed, N_Ed         kN (inputs), 1e-4 kN (results)             *)
(*   steel areas                1e-4 mm2                                   *)
(*   mu                         exact fraction num/den, and 1e-8           *)
(*   xi                         1e-4                                       *)
(*   strengths fck, fyk         MPa;  fctm in 0.01 MPa                     *)
(*   a margin "ratio"           exact fraction [num, den]                  *)
(*                                                                         *)
(* pi is taken as 3.1416, so that the area of a bar of diameter dia is     *)
(* 7854 * dia^2 in 1e-4 mm2.                                               *)
(***************************************************************************)
EXTENDS Integers, Sequences, FiniteSets, TLC

VARIABLES op, args, loc, res, catalogs, seen

vars == <<op, args, loc, res, catalogs, seen>>

(***************************************************************************)
(* Arithmetic helpers.                                                     *)
(***************************************************************************)
Max(a, b) == IF a >= b THEN a ELSE b

Min(a, b) == IF a <= b THEN a ELSE b

\* math.ceil(a / b) for b > 0
CeilDiv(a, b) == -((-a) \div b)

\* math.floor(a / b) for b > 0
FloorDiv(a, b) == a \div b

\* In the recursive helpers the values handed down are first bound by a
\* one-element set, so that each is computed once.
RECURSIVE Gcd(_, _)
Gcd(a, b) == IF b = 0 THEN a ELSE CHOOSE g \in {Gcd(b, r) : r \in {a % b}} : TRUE

\* <<quotient, remainder>> of a*b by c, for a, b >= 0 and 0 < c < 7e8, computed
\* without forming a product that leaves 32 bits.
RECURSIVE MulDivQR(_, _, _)
MulDivQR(a, b, c) ==
    IF b = 0 \/ a = 0 THEN <<0, 0>>
    ELSE IF a <= 2147483647 \div b THEN <<(a * b) \div c, (a * b) % c>>
    ELSE CHOOSE qr \in
           {<<2 * half[1] + (b % 2) * (a \div c) + (2 * half[2] + (b % 2) * (a % c)) \div c,
              (2 * half[2] + (b % 2) * (a % c)) % c>> :
                half \in {MulDivQR(a, b \div 2, c)}} : TRUE

\* floor(a * b / c)
MulDiv(a, b, c) == MulDivQR(a, b, c)[1]

\* The sign (-1, 0, 1) of a/b - c/d for a, c >= 0 and b, d > 0, by the
\* continued fractions of the two (no product is formed).
RECURSIVE RatCmp(_, _, _, _)
RatCmp(a, b, c, d) ==
    CHOOSE sign \in
      {IF a \div b # c \div d THEN (IF a \div b > c \div d THEN 1 ELSE -1)
       ELSE IF r1 = 0 /\ r2 = 0 THEN 0
       ELSE IF r1 = 0 THEN -1
       ELSE IF r2 = 0 THEN 1
       ELSE RatCmp(d, r2, b, r1) : r1 \in {a % b}, r2 \in {c % d}} : TRUE

\* floor(sqrt(n)) for 0 <= n < 2^31, by bisection on lo..hi
RECURSIVE IsqrtBetween(_, _, _)
IsqrtBetween(n, lo, hi) ==
    IF lo >= hi THEN lo
    ELSE CHOOSE root \in
           {IF mid * mid <= n THEN IsqrtBetween(n, mid, hi)
            ELSE IsqrtBetween(n, lo, mid - 1) : mid \in {(lo + hi + 1) \div 2}} : TRUE

Isqrt(n) == IsqrtBetween(n, 0, 46340)

\* round(x, k): x rounded to a multiple of m, ties to the even multiple
RoundTo(x, m) ==
    LET q == x \div m
        r == x % m
    IN  IF 2 * r < m THEN q * m
        ELSE IF 2 * r > m THEN (q + 1) * m
        ELSE IF q % 2 = 0 THEN q * m ELSE (q + 1) * m

\* round(a / b) as an integer, ties to even, for a >= 0 and b > 0
RoundDiv(a, b) ==
    LET q == a \div b
        r == a % b
    IN  IF 2 * r < b THEN q
        ELSE IF 2 * r > b THEN q + 1
        ELSE IF q % 2 = 0 THEN q ELSE q + 1

(***************************************************************************)
(* Margins.  ratio = As_provided / As_required is kept as the fraction.    *)
(***************************************************************************)
Ratio(provided, required) == [num |-> provided, den |-> required]

\* r1 <= r2 as Python compares the two floats
RatioLeq(r1, r2) == RatCmp(r1.num, r1.den, r2.num, r2.den) <= 0

RatioLess(r1, r2) == RatCmp(r1.num, r1.den, r2.num, r2.den) < 0

\* list.sort(key=lambda p: p["ratio"]): a stable ascending sort
RECURSIVE InsertByRatio(_, _)
InsertByRatio(p, sorted) ==
    IF sorted = <<>> THEN <<p>>
    ELSE IF RatioLess(p.ratio, Head(sorted).ratio)
         THEN <<p>> \o sorted
         ELSE <<Head(sorted)>> \o InsertByRatio(p, Tail(sorted))

RECURSIVE SortByRatioFrom(_, _)
SortByRatioFrom(done, rest) ==
    IF rest = <<>> THEN done
    ELSE CHOOSE sorted \in
           {SortByRatioFrom(d, r) : d \in {InsertByRatio(Head(rest), done)},
                                    r \in {Tail(rest)}} : TRUE

SortByRatio(proposals) == SortByRatioFrom(<<>>, proposals)

\* proposals[:k]
Truncate(s, k) == SubSeq(s, 1, Min(k, Len(s)))

(***************************************************************************)
(* beam_bending.py                                                         *)
(***************************************************************************)
Beam_CONCRETE_GRADES ==
    [C20_25 |-> [fck |-> 20, fctm |-> 221, Ecm |-> 30000],
     C25_30 |-> [fck |-> 25, fctm |-> 256, Ecm |-> 31000],
     C30_37 |-> [fck |-> 30, fctm |-> 290, Ecm |-> 33000],
     C35_45 |-> [fck |-> 35, fctm |-> 321, Ecm |-> 34000],
     C40_50 |-> [fck |-> 40, fctm |-> 351, Ecm |-> 35000],
     C45_55 |-> [fck |-> 45, fctm |-> 380, Ecm |-> 36000],
     C50_60 |-> [fck |-> 50, fctm |-> 407, Ecm |-> 37000]]

Beam_STEEL_GRADES ==
    [B500SP |-> [fyk |-> 500, Es |-> 200000],
     B500A  |-> [fyk |-> 500, Es |-> 200000],
     B500B  |-> [fyk |-> 500, Es |-> 200000],
     B400   |-> [fyk |-> 400, Es |-> 200000]]

\* GAMMA_G = 1.35 and GAMMA_Q = 1.50, in hundredths
Beam_GAMMA_G == 135

Beam_GAMMA_Q == 150

BAR_DIAMETERS == <<8, 10, 12, 16, 20, 25, 32>>

\* pi / 4 in 1e-4
PI_OVER_4 == 7854

\* bar_area(dia) = pi * dia^2 / 4, in 1e-4 mm2
bar_area(diameter_mm) == PI_OVER_4 * diameter_mm * diameter_mm

\* n_required rounded down instead of up: a search that may fall short
Beam_n_required_floor(As_required_mm2, area_one) == As_required_mm2 \div area_one

\* n_required with one bar more than needed
Beam_n_required_plus_one(As_required_mm2, area_one) ==
    CeilDiv(As_required_mm2, area_one) + 1

\* n_required = math.ceil(As_required_mm2 / area_one)
Beam_n_required(As_required_mm2, area_one) == CeilDiv(As_required_mm2, area_one)

\* the test of the width left out: any count of at least two bars is kept
Beam_fits_any_width(n_required, dia, space_available) == n_required >= 2

\* the test of the width alone: a single bar is kept
Beam_fits_width_only(n_required, dia, space_available) ==
    n_required * dia + (n_required - 1) * Max(25, dia) <= space_available

\* the width test with the bars touching: no clear spacing asked for
Beam_fits_bars_touching(n_required, dia, space_available) ==
    /\ n_required * dia <= space_available
    /\ n_required >= 2

\* the width test of find_bars together with the minimum of two bars
Beam_fits(n_required, dia, space_available) ==
    /\ n_required * dia + (n_required - 1) * Max(25, dia) <= space_available
    /\ n_required >= 2

\* One pass of the loop of find_bars: the proposals appended for dia.
Beam_proposal_for(dia, As_required_mm2, b_mm, cover_mm, stirrup_dia) ==
    LET area_one        == bar_area(dia)
        n_required      == Beam_n_required(As_required_mm2, area_one)
        space_available == b_mm - 2 * cover_mm - 2 * stirrup_dia
        As_provided     == n_required * area_one
    IN  IF dia < 12 THEN <<>>
        ELSE IF Beam_fits(n_required, dia, space_available)
        THEN <<[n           |-> n_required,
                dia         |-> dia,
                As_provided |-> As_provided,
                ratio       |-> Ratio(As_provided, As_required_mm2),
                spacing     |-> IF n_required > 1
                                THEN ((space_available - n_required * dia) * 10000)
                                         \div (n_required - 1)
                                ELSE 0]>>
        ELSE <<>>

\* The list "proposals" of find_bars when its loop ends, before the sort.
RECURSIVE Beam_candidates_from(_, _, _, _, _)
Beam_candidates_from(i, As_required_mm2, b_mm, cover_mm, stirrup_dia) ==
    IF i > Len(BAR_DIAMETERS) THEN <<>>
    ELSE Beam_proposal_for(BAR_DIAMETERS[i], As_required_mm2, b_mm, cover_mm, stirrup_dia)
         \o Beam_candidates_from(i + 1, As_required_mm2, b_mm, cover_mm, stirrup_dia)

Beam_candidates(As_required_mm2, b_mm, cover_mm, stirrup_dia) ==
    Beam_candidates_from(1, As_required_mm2, b_mm, cover_mm, stirrup_dia)

\* proposals.sort(key=ratio); return proposals[:5]
Beam_rank(proposals) == Truncate(SortByRatio(proposals), 5)

find_bars(As_required_mm2, b_mm, cover_mm, stirrup_dia) ==
    Beam_rank(Beam_candidates(As_required_mm2, b_mm, cover_mm, stirrup_dia))

\* the characteristic load, with no partial factors
Beam_q_Ed_unfactored(g, q) == 100 * (g + q)

\* q_Ed = GAMMA_G * g + GAMMA_Q * q, in 1e-4 kN/m
Beam_q_Ed(g, q) == Beam_GAMMA_G * g + Beam_GAMMA_Q * q

\* xi_lim = epsilon_cu / (epsilon_cu + fyd / Es) as a fraction in lowest terms:
\* 0.0035 * 1.15 * Es / (0.0035 * 1.15 * Es + fyk) = 4025 * (Es / 1000) / (... + 1000 * fyk)
Beam_xi_lim(fyk, Es) ==
    LET n == 4025 * (Es \div 1000)
        d == n + 1000 * fyk
        g == Gcd(n, d)
    IN  [num |-> n \div g, den |-> d \div g]

\* the limit taken as 0.5, where the root of xi runs out
Beam_mu_lim_half(fyk, Es) == [num |-> 1, den |-> 2]

\* mu_lim = xi_lim * (1 - 0.5 * xi_lim) as a fraction
Beam_mu_lim(fyk, Es) ==
    LET x == Beam_xi_lim(fyk, Es)
    IN  [num |-> x.num * (2 * x.den - x.num), den |-> 2 * x.den * x.den]

\* the test of mu left out: the singly reinforced design is always made
Beam_never_over_limit(mu, mu_lim) == FALSE

\* the test of mu with the boundary on the failing side (mu >= mu_lim)
Beam_over_or_at_limit(mu, mu_lim) == RatCmp(mu.num, mu.den, mu_lim.num, mu_lim.den) >= 0

\* the test "if mu > mu_lim" of calculate_beam_bending
Beam_over_limit(mu, mu_lim) == RatCmp(mu.num, mu.den, mu_lim.num, mu_lim.den) > 0

\* The locals of calculate_beam_bending up to the test of mu.  b_mm is a
\* multiple of 10 and d_mm > 0.
Beam_locals(span, b_mm, h_mm, g, q, concrete, steel, cover) ==
    LET conc   == Beam_CONCRETE_GRADES[concrete]
        st     == Beam_STEEL_GRADES[steel]
        fck    == conc.fck
        fyk    == st.fyk
        d_mm   == h_mm - cover - 8 - 20 \div 2
        q_Ed   == Beam_q_Ed(g, q)
        \* M_Ed = q_Ed * span^2 / 8: 1e-4 kN/m * 0.01 m2 / 8 = 1e-4 kNm / 800
        M_Ed   == MulDiv(q_Ed, span * span, 800)
        \* mu = M_Ed_Nmm / (b_mm * d_mm^2 * fcd) = 3 * M_Ed / ((b_mm/10) * d_mm^2 * (fck/5))
        mu     == [num |-> 3 * M_Ed,
                   den |-> (b_mm \div 10) * d_mm * d_mm * (fck \div 5)]
        mu_lim == Beam_mu_lim(fyk, st.Es)
    IN  [fck |-> fck, fctm |-> conc.fctm, fyk |-> fyk, Es |-> st.Es,
         d_mm |-> d_mm, q_Ed |-> q_Ed, M_Ed |-> M_Ed,
         mu |-> mu, mu_lim |-> mu_lim,
         mu8 |-> MulDiv(mu.num, 100000000, mu.den),
         mu_lim8 |-> MulDiv(mu_lim.num, 100000000, mu_lim.den),
         over |-> Beam_over_limit(mu, mu_lim)]

\* the argument 1 - 2 * mu of math.sqrt in "xi = 1 - math.sqrt(1 - 2 * mu)",
\* in 1e-8; math.sqrt raises ValueError (math domain error) when it is negative
Beam_root_argument(mu8) == 100000000 - 2 * mu8

\* the flag left unset: the minimum is never reported as governing
Beam_is_min_governing_never(As_mm2, As_min) == FALSE

\* the result field "is_min_governing": As_mm2 < As_min
Beam_is_min_governing(As_mm2, As_min) == As_mm2 < As_min

\* The locals of the accepted path (mu <= mu_lim).
Beam_design(L, b_mm, h_mm, cover) ==
    LET \* xi = 1 - sqrt(1 - 2 mu), carried to 1e-4
        xi       == 10000 - Isqrt(Beam_root_argument(L.mu8))
        bd       == b_mm * L.d_mm
        \* As = xi * b * d * fcd / fyd, with fcd / fyd = 23 fck / (30 fyk)
        As_mm2   == MulDiv(xi * 23 * L.fck, bd, 30 * L.fyk)
        As_min_1 == MulDiv(26 * L.fctm, bd, L.fyk)
        As_min_2 == 13 * bd
        As_min   == Max(As_min_1, As_min_2)
        As_max   == 400 * b_mm * h_mm
        As_required == Max(As_mm2, As_min)
    IN  [xi |-> xi, As_mm2 |-> As_mm2, As_min |-> As_min, As_max |-> As_max,
         As_required |-> As_required,
         proposals |-> find_bars(As_required, b_mm, cover, 8)]

\* The record returned by calculate_beam_bending whose locals are L.
Beam_result(L, span, b_mm, h_mm, g, q, concrete, steel, cover) ==
        IF L.over
        THEN [raised  |-> "none",
              error   |-> TRUE,
              message |-> "mu > mu_lim: doubly reinforced or resize",
              M_Ed    |-> L.M_Ed,
              q_Ed    |-> L.q_Ed,
              mu      |-> L.mu8,
              mu_lim  |-> L.mu_lim8]
        ELSE IF Beam_root_argument(L.mu8) < 0
        THEN [raised |-> "ValueError"]
        ELSE CHOOSE result \in {
                 [raised  |-> "none",
                  error   |-> FALSE,
                  span |-> span, b |-> b_mm, h |-> h_mm, d |-> L.d_mm,
                  g |-> g, q |-> q, concrete |-> concrete, steel |-> steel,
                  cover |-> cover,
                  fck  |-> L.fck,
                  fcd  |-> RoundDiv(L.fck * 200, 3),
                  fyk  |-> L.fyk,
                  fyd  |-> RoundDiv(L.fyk * 1000, 115),
                  q_Ed |-> RoundTo(L.q_Ed, 100),
                  M_Ed |-> RoundTo(L.M_Ed, 100),
                  mu     |-> RoundTo(L.mu8, 10000),
                  mu_lim |-> RoundTo(L.mu_lim8, 10000),
                  xi     |-> D.xi,
                  As_required_mm2 |-> RoundTo(D.As_required, 1000),
                  As_calc_mm2     |-> RoundTo(D.As_mm2, 1000),
                  As_min_mm2      |-> RoundTo(D.As_min, 1000),
                  As_max_mm2      |-> RoundTo(D.As_max, 1000),
                  is_min_governing |-> Beam_is_min_governing(D.As_mm2, D.As_min),
                  proposals |-> D.proposals] :
                 D \in {Beam_design(L, b_mm, h_mm, cover)}} : TRUE

calculate_beam_bending(span, b_mm, h_mm, g, q, concrete, steel, cover) ==
    IF concrete \notin DOMAIN Beam_CONCRETE_GRADES \/ steel \notin DOMAIN Beam_STEEL_GRADES
    THEN [raised |-> "KeyError"]
    ELSE CHOOSE result \in
           {Beam_result(L, span, b_mm, h_mm, g, q, concrete, steel, cover) :
              L \in {Beam_locals(span, b_mm, h_mm, g, q, concrete, steel, cover)}} : TRUE

\* What the model keeps of the locals of a call of calculate_beam_bending.
Beam_trace(span, b_mm, h_mm, g, q, concrete, steel, cover) ==
    IF concrete \notin DOMAIN Beam_CONCRETE_GRADES \/ steel \notin DOMAIN Beam_STEEL_GRADES
    THEN [reached |-> "lookup"]
    ELSE CHOOSE trace \in
      {IF L.over
       THEN [reached |-> "limit", mu |-> L.mu, mu_lim |-> L.mu_lim,
             q_Ed |-> L.q_Ed, M_Ed |-> L.M_Ed]
       ELSE IF Beam_root_argument(L.mu8) < 0
       THEN [reached |-> "sqrt", mu |-> L.mu, mu_lim |-> L.mu_lim,
             q_Ed |-> L.q_Ed, M_Ed |-> L.M_Ed]
       ELSE CHOOSE t \in
              {[reached |-> "return", mu |-> L.mu, mu_lim |-> L.mu_lim,
                q_Ed |-> L.q_Ed, M_Ed |-> L.M_Ed,
                As_required |-> D.As_required, As_mm2 |-> D.As_mm2,
                As_min |-> D.As_min, As_max |-> D.As_max,
                candidates |-> Beam_candidates(D.As_required, b_mm, cover, 8)] :
                  D \in {Beam_design(L, b_mm, h_mm, cover)}} : TRUE :
         L \in {Beam_locals(span, b_mm, h_mm, g, q, concrete, steel, cover)}} : TRUE

(***************************************************************************)
(* column_design.py                                                        *)
(***************************************************************************)
Col_CONCRETE_GRADES ==
    [C20_25 |-> [fck |-> 20, fctm |-> 221, Ecm |-> 30000],
     C25_30 |-> [fck |-> 25, fctm |-> 256, Ecm |-> 31000],
     C30_37 |-> [fck |-> 30, fctm |-> 290, Ecm |-> 33000],
     C35_45 |-> [fck |-> 35, fctm |-> 321, Ecm |-> 34000],
     C40_50 |-> [fck |-> 40, fctm |-> 351, Ecm |-> 35000]]

Col_STEEL_GRADES ==
    [B500SP |-> [fyk |-> 500, Es |-> 200000],
     B500A  |-> [fyk |-> 500, Es |-> 200000],
     B500B  |-> [fyk |-> 500, Es |-> 200000]]

Col_BAR_DIAMETERS == <<16, 20, 25, 32>>

\* sqrt(12) in 1e-4
SQRT_12 == 34641

\* e_2 computed whether or not the slenderness is above its limit
Col_e_2_always(second_order_needed, K_r, fyk, Es, l_0, d_mm) ==
    MulDiv(K_r * fyk, l_0 * l_0, 5175 * (Es \div 1000) * d_mm)

\* "e_2 = 0; if second_order_needed: ... e_2 = one_over_r * l_0**2 / c_factor",
\* e_2 = K_r * (fyd / Es) / (0.45 d) * l_0^2 / 10, in 1e-4 mm
Col_e_2(second_order_needed, K_r, fyk, Es, l_0, d_mm) ==
    IF second_order_needed
    THEN MulDiv(K_r * fyk, l_0 * l_0, 5175 * (Es \div 1000) * d_mm)
    ELSE 0

\* The locals of calculate_column before the bar search.  height_col and
\* eff_length_factor are in tenths, N_Ed in kN, M_Ed in kNm; N_Ed > 0.
Col_locals(height_col, b_mm, h_mm, N_Ed, M_Ed, concrete, steel, cover, eff_length_factor) ==
    LET conc == Col_CONCRETE_GRADES[concrete]
        st   == Col_STEEL_GRADES[steel]
        fck  == conc.fck
        fyk  == st.fyk
        Ac   == b_mm * h_mm
        d_mm  == h_mm - cover - 8 - 20 \div 2
        d2_mm == cover + 8 + 20 \div 2
        \* 1. slenderness
        l_0  == eff_length_factor * height_col * 10
        \* lam = l_0 / (h_mm / sqrt(12)), 1e-4
        lam  == MulDiv(l_0, SQRT_12, h_mm)
        \* n = N_Ed * 1000 / (Ac * fcd), 1e-8
        n    == MulDiv(1500 * N_Ed, 100000000, Ac * fck)
        \* lam_lim = 20 * 0.7 * 1.1 * 0.7 / sqrt(n) = 10.78 / sqrt(n), 1e-4
        lam_lim == IF N_Ed > 0 THEN 1078000000 \div Isqrt(n) ELSE 9990000
        second_order_needed == lam > lam_lim
        \* 2. eccentricities, 1e-4 mm
        e_1_first == IF N_Ed > 0 THEN MulDiv(M_Ed, 10000000, N_Ed) ELSE 0
        e_min == Max((h_mm * 10000) \div 30, 200000)
        e_1   == Max(e_1_first, e_min)
        e_i   == (l_0 * 10000) \div 400
        \* n_u = 1 + fyd * 0.01 * Ac / (fcd * Ac) = 1 + 3 fyk / (230 fck), 1e-8
        n_u   == 100000000 + MulDiv(3 * fyk, 100000000, 230 * fck)
        n_bal == 40000000
        \* K_r = max(min((n_u - n) / (n_u - n_bal), 1.0), 0), 1e-4
        K_r   == IF n_u > n_bal
                 THEN (IF n >= n_u THEN 0
                       ELSE Min(MulDiv(n_u - n, 10000, n_u - n_bal), 10000))
                 ELSE 10000
        \* e_2 = K_r * (fyd / Es) / (0.45 d) * l_0^2 / 10
        \*     = K_r * fyk * l_0^2 / (5.175 * Es * d)
        e_2   == Col_e_2(second_order_needed, K_r, fyk, st.Es, l_0, d_mm)
        e_tot == e_1 + e_i + e_2
        \* M_Ed_total = N_Ed * e_tot / 1000, 1e-4 kNm
        M_Ed_total == MulDiv(N_Ed, e_tot, 1000)
        \* 3. reinforcement, 1e-4 mm2
        z_s == d_mm - d2_mm
        \* 2 * M_Ed_total * 1e6 / (fyd * z_s)
        As_total_from_moment ==
            IF z_s > 0 THEN MulDiv(M_Ed_total, 2300000, fyk * z_s) ELSE 0
        near_axial == e_tot * 10 < h_mm * 10000
        \* max((N_Ed * 1000 - 0.85 * Ac * fcd) / fyd, 0)
        As_from_N ==
            IF 30000 * N_Ed > 17 * Ac * fck
            THEN MulDiv(30000 * N_Ed - 17 * Ac * fck, 1150, 3 * fyk)
            ELSE 0
        As_total == IF near_axial THEN Max(As_from_N, As_total_from_moment)
                    ELSE As_total_from_moment
        As_min_1 == MulDiv(1150000, N_Ed, fyk)
        As_min_2 == 20 * Ac
        As_min   == Max(As_min_1, As_min_2)
        As_max   == 400 * Ac
    IN  [fck |-> fck, fyk |-> fyk, Ac |-> Ac, d_mm |-> d_mm, l_0 |-> l_0,
         lam |-> lam, n |-> n, lam_lim |-> lam_lim,
         second_order_needed |-> second_order_needed,
         e_1 |-> e_1, e_min |-> e_min, e_i |-> e_i, K_r |-> K_r, e_2 |-> e_2,
         e_tot |-> e_tot, M_Ed_total |-> M_Ed_total,
         As_total_from_moment |-> As_total_from_moment, near_axial |-> near_axial,
         As_from_N |-> As_from_N, As_total |-> As_total,
         As_min |-> As_min, As_max |-> As_max,
         As_required |-> Min(Max(As_total, As_min), As_max)]

\* the tests of the inner loop without "As_prov <= As_max"
Col_accepts_above_maximum(n_bars, dia, As_required, As_max, b_mm, cover) ==
    /\ n_bars * bar_area(dia) >= As_required
    /\ b_mm - 2 * cover - 2 * 8 - dia >= Max(dia, 20) * Max(n_bars \div 2 - 1, 1)

\* the two tests of the inner loop: "As_prov >= As_required" and then
\* "spacing >= max(dia, 20) and As_prov <= As_max", spacing being
\* (b_mm - 2 cover - 2*8 - dia) / max(n_bars // 2 - 1, 1)
Col_accepts(n_bars, dia, As_required, As_max, b_mm, cover) ==
    LET As_prov == n_bars * bar_area(dia)
    IN  /\ As_prov >= As_required
        /\ b_mm - 2 * cover - 2 * 8 - dia >= Max(dia, 20) * Max(n_bars \div 2 - 1, 1)
        /\ As_prov <= As_max

\* The inner loop "for n_bars in range(4, 16, 2)" from n_bars on: the
\* proposal of the first count accepted (break), or none.
RECURSIVE Col_first_fit(_, _, _, _, _, _, _)
Col_first_fit(n_bars, dia, As_required, As_max, Ac, b_mm, cover) ==
    IF n_bars >= 16 THEN <<>>
    ELSE IF Col_accepts(n_bars, dia, As_required, As_max, b_mm, cover)
    THEN <<[n           |-> n_bars,
            dia         |-> dia,
            As_provided |-> RoundTo(n_bars * bar_area(dia), 1000),
            ratio       |-> Ratio(n_bars * bar_area(dia), As_required),
            rho         |-> RoundDiv(n_bars * bar_area(dia), Ac)]>>
    ELSE Col_first_fit(n_bars + 2, dia, As_required, As_max, Ac, b_mm, cover)

\* The list "proposals" of calculate_column when the loops end, before the sort.
RECURSIVE Col_candidates_from(_, _, _, _, _, _)
Col_candidates_from(i, As_required, As_max, Ac, b_mm, cover) ==
    IF i > Len(Col_BAR_DIAMETERS) THEN <<>>
    ELSE Col_first_fit(4, Col_BAR_DIAMETERS[i], As_required, As_max, Ac, b_mm, cover)
         \o Col_candidates_from(i + 1, As_required, As_max, Ac, b_mm, cover)

Col_candidates(As_required, As_max, Ac, b_mm, cover) ==
    Col_candidates_from(1, As_required, As_max, Ac, b_mm, cover)

\* proposals.sort(key=ratio); proposals = proposals[:4]
Col_rank(proposals) == Truncate(SortByRatio(proposals), 4)

\* The record returned by calculate_column whose locals are L and whose
\* list of proposals is "proposals".
Col_result(L, proposals, height_col, b_mm, h_mm, N_Ed, M_Ed, concrete, steel, cover, eff_length_factor) ==
    LET main_dia  == IF proposals # <<>> THEN proposals[1].dia ELSE 20
        stirrup_dia == Max(Max(6, CeilDiv(main_dia, 4)), 8)
        stirrup_spacing == (Min(Min(20 * main_dia, b_mm), Min(h_mm, 400)) \div 10) * 10
    IN  [raised |-> "none",
         height_col |-> height_col, b |-> b_mm, h |-> h_mm,
         N_Ed |-> N_Ed, M_Ed |-> M_Ed,
         concrete |-> concrete, steel |-> steel, cover |-> cover,
         fcd |-> RoundDiv(L.fck * 200, 3), fyd |-> RoundDiv(L.fyk * 1000, 115),
         l_0 |-> L.l_0, lam |-> RoundTo(L.lam, 1000), lam_lim |-> RoundTo(L.lam_lim, 1000),
         second_order_needed |-> L.second_order_needed,
         n |-> RoundTo(L.n, 100000),
         e_1 |-> RoundTo(L.e_1, 1000), e_i |-> RoundTo(L.e_i, 1000),
         e_2 |-> RoundTo(L.e_2, 1000), e_tot |-> RoundTo(L.e_tot, 1000),
         M_Ed_total |-> RoundTo(L.M_Ed_total, 100),
         As_required |-> RoundTo(L.As_required, 1000),
         As_min |-> RoundTo(L.As_min, 1000), As_max |-> RoundTo(L.As_max, 1000),
         proposals |-> proposals,
         stirrup_dia |-> stirrup_dia,
         stirrup_spacing |-> stirrup_spacing,
         eff_length_factor |-> eff_length_factor]

calculate_column(height_col, b_mm, h_mm, N_Ed, M_Ed, concrete, steel, cover, eff_length_factor) ==
    IF concrete \notin DOMAIN Col_CONCRETE_GRADES \/ steel \notin DOMAIN Col_STEEL_GRADES
    THEN [raised |-> "KeyError"]
    ELSE CHOOSE result \in
      {CHOOSE r \in
         {Col_result(L, proposals, height_col, b_mm, h_mm, N_Ed, M_Ed, concrete, steel,
                     cover, eff_length_factor) :
            proposals \in {Col_rank(Col_candidates(L.As_required, L.As_max, L.Ac,
                                                   b_mm, cover))}} : TRUE :
         L \in {Col_locals(height_col, b_mm, h_mm, N_Ed, M_Ed, concrete, steel, cover,
                           eff_length_factor)}} : TRUE

\* What the model keeps of the locals of a call of calculate_column.
Col_trace(height_col, b_mm, h_mm, N_Ed, M_Ed, concrete, steel, cover, eff_length_factor) ==
    IF concrete \notin DOMAIN Col_CONCRETE_GRADES \/ steel \notin DOMAIN Col_STEEL_GRADES
    THEN [reached |-> "lookup"]
    ELSE CHOOSE trace \in
      {[reached |-> "return"] @@ L @@
       [candidates |-> Col_candidates(L.As_required, L.As_max, L.Ac, b_mm, cover)] :
         L \in {Col_locals(height_col, b_mm, h_mm, N_Ed, M_Ed, concrete, steel, cover,
                           eff_length_factor)}} : TRUE


(***************************************************************************)
(* slab_design.py: the bar search                                          *)
(***************************************************************************)
Slab_BAR_DIAMETERS == <<8, 10, 12, 16, 20>>

\* max_spacing in 0.1 mm: min(3 h, 400) for the main direction, else min(3.5 h, 450)
Slab_max_spacing(h_mm, direction) ==
    IF direction = "main" THEN Min(30 * h_mm, 4000) ELSE Min(35 * h_mm, 4500)

\* spacing_round: spacing = area_one * 1000 / As_req_per_m cut to max_spacing,
\* rounded down to 10 mm, and not below max(dia + 5, 50)
Slab_spacing_round(dia, As_req_per_m, h_mm, direction) ==
    LET tens == Min((bar_area(dia) * 100) \div As_req_per_m,
                    Slab_max_spacing(h_mm, direction) \div 100)
    IN  Max(tens * 10, Max(dia + 5, 50))

\* the test "As_provided >= As_req_per_m and spacing_round >= 50"
Slab_accepts(As_provided, As_req_per_m, spacing_round) ==
    As_provided >= As_req_per_m /\ spacing_round >= 50

\* One pass of the loop of select_reinforcement.
Slab_proposal_for(dia, As_req_per_m, h_mm, direction) ==
    LET area_one      == bar_area(dia)
        spacing_round == Slab_spacing_round(dia, As_req_per_m, h_mm, direction)
        n_bars        == CeilDiv(1000, spacing_round)
        As_provided   == n_bars * area_one
    IN  IF Slab_accepts(As_provided, As_req_per_m, spacing_round)
        THEN <<[dia         |-> dia,
                spacing     |-> spacing_round,
                As_provided |-> RoundTo(As_provided, 1000),
                ratio       |-> Ratio(As_provided, As_req_per_m)]>>
        ELSE <<>>

\* The list "proposals" of select_reinforcement when its loop ends, before the sort.
RECURSIVE Slab_candidates_from(_, _, _, _)
Slab_candidates_from(i, As_req_per_m, h_mm, direction) ==
    IF i > Len(Slab_BAR_DIAMETERS) THEN <<>>
    ELSE Slab_proposal_for(Slab_BAR_DIAMETERS[i], As_req_per_m, h_mm, direction)
         \o Slab_candidates_from(i + 1, As_req_per_m, h_mm, direction)

Slab_candidates(As_req_per_m, h_mm, direction) ==
    Slab_candidates_from(1, As_req_per_m, h_mm, direction)

\* the list cut to four before it is sorted
Slab_rank_cut_first(proposals) == SortByRatio(Truncate(proposals, 4))

\* proposals.sort(key=ratio); return proposals[:4]
Slab_rank(proposals) == Truncate(SortByRatio(proposals), 4)

select_reinforcement(As_req_per_m, h_mm, direction) ==
    Slab_rank(Slab_candidates(As_req_per_m, h_mm, direction))

(***************************************************************************)
(* slab_design.py: the evaluator                                           *)
(***************************************************************************)
Slab_CONCRETE_GRADES ==
    [C20_25 |-> [fck |-> 20, fctm |-> 221],
     C25_30 |-> [fck |-> 25, fctm |-> 256],
     C30_37 |-> [fck |-> 30, fctm |-> 290],
     C35_45 |-> [fck |-> 35, fctm |-> 321],
     C40_50 |-> [fck |-> 40, fctm |-> 351]]

Slab_STEEL_GRADES ==
    [B500SP |-> [fyk |-> 500, Es |-> 200000],
     B500A  |-> [fyk |-> 500, Es |-> 200000],
     B500B  |-> [fyk |-> 500, Es |-> 200000]]

Slab_GAMMA_G == 135

Slab_GAMMA_Q == 150

\* The coefficient tables, keyed by 10 * (ly / lx); the pairs are in 1e-4.
COEFF_SIMPLY_SUPPORTED ==
    [r \in 10..20 |->
        CASE r = 10 -> <<625, 625>>   [] r = 11 -> <<698, 571>>
          [] r = 12 -> <<769, 520>>   [] r = 13 -> <<833, 474>>
          [] r = 14 -> <<892, 432>>   [] r = 15 -> <<948, 393>>
          [] r = 16 -> <<996, 360>>   [] r = 17 -> <<1040, 331>>
          [] r = 18 -> <<1080, 305>>  [] r = 19 -> <<1112, 283>>
          [] r = 20 -> <<1140, 264>>]

COEFF_ALL_FIXED ==
    [r \in 10..20 |->
        CASE r = 10 -> <<340, 340>>   [] r = 11 -> <<398, 310>>
          [] r = 12 -> <<452, 284>>   [] r = 13 -> <<501, 262>>
          [] r = 14 -> <<545, 243>>   [] r = 15 -> <<585, 227>>
          [] r = 16 -> <<620, 213>>   [] r = 17 -> <<650, 202>>
          [] r = 18 -> <<676, 192>>   [] r = 19 -> <<699, 184>>
          [] r = 20 -> <<718, 177>>]

\* interpolate_coeff without the cut of the ratio to [1.0, 2.0]: outside the
\* table the two nearest rows are extended linearly
interpolate_coeff_extrapolating(table, ly, lx) ==
    LET r_low  == Max(10, Min(19, (10 * ly) \div lx))
        c_low  == table[r_low]
        c_high == table[r_low + 1]
        t_num  == 10 * ly - r_low * lx
    IN  <<c_low[1] * 10000 + (t_num * (c_high[1] - c_low[1]) * 10000) \div lx,
          c_low[2] * 10000 + (t_num * (c_high[2] - c_low[2]) * 10000) \div lx>>

\* interpolate_coeff without the interpolation: the row of the tabulated
\* ratio at or below the ratio
interpolate_coeff_stepwise(table, ly, lx) ==
    LET r_low == Max(10, Min(20, (10 * ly) \div lx))
    IN  <<table[r_low][1] * 10000, table[r_low][2] * 10000>>

\* interpolate_coeff for the ratio ly / lx, the pair in 1e-8.  The ratio is
\* first cut to [1.0, 2.0]; r_low and r_high are its floor and ceiling in tenths.
interpolate_coeff(table, ly, lx) ==
    LET num    == IF ly < lx THEN lx ELSE IF ly > 2 * lx THEN 2 * lx ELSE ly
        r_low  == (10 * num) \div lx
        r_high == CeilDiv(10 * num, lx)
    IN  IF r_low = r_high
        THEN <<table[r_low][1] * 10000, table[r_low][2] * 10000>>
        ELSE LET c_low  == table[r_low]
                 c_high == table[r_high]
                 \* t = (ratio - r_low) / (r_high - r_low) = t_num / lx
                 t_num  == 10 * num - r_low * lx
             IN  <<c_low[1] * 10000 + (t_num * (c_high[1] - c_low[1]) * 10000) \div lx,
                   c_low[2] * 10000 + (t_num * (c_high[2] - c_low[2]) * 10000) \div lx>>

\* q_Ed = GAMMA_G * g + GAMMA_Q * q, in 1e-4 kN/m2
Slab_q_Ed(g, q) == Slab_GAMMA_G * g + Slab_GAMMA_Q * q

\* the classification with the threshold on the one-way side (ratio >= 2.0)
Slab_is_one_way_from_two(lx, ly, support_type) ==
    ly >= 2 * lx \/ support_type = "one_way"

\* is_one_way = ratio > 2.0 or support_type == "one_way"
Slab_is_one_way(lx, ly, support_type) == ly > 2 * lx \/ support_type = "one_way"

\* mu = M * 1e6 / (b * d^2 * fcd) with b = 1000, in 1e-8; M in 1e-4 kNm/m
Slab_mu(M, d, fck) == MulDiv(M, 15000000, d * d * fck)

\* xi = 1 - sqrt(1 - 2 mu) if mu < 0.5 else 0.5, in 1e-4
Slab_xi(mu) == IF mu < 50000000 THEN 10000 - Isqrt(100000000 - 2 * mu) ELSE 5000

\* xi * b * d * fcd / fyd with b = 1000, in 1e-4 mm2/m
Slab_As(M, d_dir, d, fck, fyk) ==
    MulDiv(Slab_xi(Slab_mu(M, d_dir, fck)) * 23 * fck, 1000 * d_dir, 30 * fyk)

\* Slab_deflection with the ceiling at 60 * K instead of 40 * K
Slab_deflection_ceiling_60(As, d, fck, K, L_eff) ==
    LET As_0 == Isqrt(fck * 1000000) * d * 10
        x    == IF As <= As_0 THEN As ELSE As - As_0
        capped == RatCmp(15000 * fck * d, x, 49, 1) >= 0
        Ld_basic == IF capped THEN 60000 * K
                    ELSE Min((K * (110000 + MulDiv(15000 * fck * d, 10000, x))) \div 10,
                             60000 * K)
    IN  <<Ld_basic, MulDiv(L_eff * 100, 10000, d)>>

\* The deflection check: <<Ld_basic, Ld_actual>> in 1e-4.  As is the steel
\* area of rho = As / (b * d), K is in tenths, L_eff in 0.1 m.
Slab_deflection(As, d, fck, K, L_eff) ==
    LET \* rho_0 = 1e-3 * sqrt(fck) as the area rho_0 * b * d
        As_0 == Isqrt(fck * 1000000) * d * 10
        \* 1.5 * sqrt(fck) * rho_0 / x = 15000 * fck * d / (area of x)
        x    == IF As <= As_0 THEN As ELSE As - As_0
        capped == RatCmp(15000 * fck * d, x, 29, 1) >= 0
        Ld_basic == IF capped THEN 40000 * K
                    ELSE Min((K * (110000 + MulDiv(15000 * fck * d, 10000, x))) \div 10,
                             40000 * K)
    IN  <<Ld_basic, MulDiv(L_eff * 100, 10000, d)>>

\* The locals of calculate_slab.  lx, ly are in 0.1 m, h_mm and cover in mm,
\* g and q in 0.01 kN/m2; the areas are in 1e-4 mm2/m, the moments in 1e-4 kNm/m.
Slab_locals(lx, ly, h_mm, g, q, concrete, steel, cover, support_type) ==
    LET conc  == Slab_CONCRETE_GRADES[concrete]
        fck   == conc.fck
        fyk   == Slab_STEEL_GRADES[steel].fyk
        d_mm  == h_mm - cover - 10 \div 2
        d2_mm == h_mm - cover - 10 - 10 \div 2
        q_Ed  == Slab_q_Ed(g, q)
        is_one_way == Slab_is_one_way(lx, ly, support_type)
        continuous == support_type \in {"all_fixed", "two_adjacent_fixed"}
        As_min == Max(MulDiv(26 * conc.fctm, 1000 * d_mm, fyk), 13 * 1000 * d_mm)
        \* one-way
        M_Ed_span    == MulDiv(q_Ed, lx * lx, IF continuous THEN 1600 ELSE 800)
        M_Ed_support == IF continuous THEN MulDiv(q_Ed, lx * lx, 1200) ELSE 0
        As_span  == Max(Slab_As(M_Ed_span, d_mm, d_mm, fck, fyk), As_min)
        As_transverse == Max(As_span \div 5, As_min)
        As_sup   == Max(Slab_As(M_Ed_support, d_mm, d_mm, fck, fyk), As_min)
        \* two-way
        coeffs   == IF support_type = "all_fixed"
                    THEN interpolate_coeff(COEFF_ALL_FIXED, ly, lx)
                    ELSE interpolate_coeff(COEFF_SIMPLY_SUPPORTED, ly, lx)
        M_Ed_x   == MulDiv(MulDiv(coeffs[1], q_Ed, 1000000), lx * lx, 10000)
        M_Ed_y   == MulDiv(MulDiv(coeffs[2], q_Ed, 1000000), lx * lx, 10000)
        M_Ed_x_sup == IF support_type = "all_fixed" THEN MulDiv(133, M_Ed_x, 100) ELSE 0
        M_Ed_y_sup == IF support_type = "all_fixed" THEN MulDiv(133, M_Ed_y, 100) ELSE 0
        As_x     == Max(Slab_As(M_Ed_x, d_mm, d_mm, fck, fyk), As_min)
        As_y     == Max(Slab_As(M_Ed_y, d2_mm, d2_mm, fck, fyk), As_min)
        As_x_sup == Max(Slab_As(M_Ed_x_sup, d_mm, d_mm, fck, fyk), As_min)
        As_y_sup == Max(Slab_As(M_Ed_y_sup, d2_mm, d2_mm, fck, fyk), As_min)
        \* deflection
        K        == IF support_type = "all_fixed" THEN 13 ELSE 10
        defl     == Slab_deflection(IF is_one_way THEN As_span ELSE Max(As_x, As_y),
                                    d_mm, fck, K, IF is_one_way THEN lx ELSE Min(lx, ly))
        common   == [fck |-> fck, fyk |-> fyk, d_mm |-> d_mm, d2_mm |-> d2_mm,
                     q_Ed |-> q_Ed, is_one_way |-> is_one_way, As_min |-> As_min,
                     K |-> K, Ld_basic |-> defl[1], Ld_actual |-> defl[2],
                     deflection_ok |-> defl[2] <= defl[1]]
    IN  IF is_one_way
        THEN common @@
             [M_Ed_span |-> M_Ed_span, M_Ed_support |-> M_Ed_support,
              mu_span |-> Slab_mu(M_Ed_span, d_mm, fck),
              As_span |-> As_span, As_transverse |-> As_transverse, As_sup |-> As_sup]
        ELSE common @@
             [alpha_x |-> coeffs[1], alpha_y |-> coeffs[2],
              M_Ed_x |-> M_Ed_x, M_Ed_y |-> M_Ed_y,
              M_Ed_x_sup |-> M_Ed_x_sup, M_Ed_y_sup |-> M_Ed_y_sup,
              mu_x |-> Slab_mu(M_Ed_x, d_mm, fck), mu_y |-> Slab_mu(M_Ed_y, d2_mm, fck),
              As_x |-> As_x, As_y |-> As_y, As_x_sup |-> As_x_sup, As_y_sup |-> As_y_sup]

\* The record returned by calculate_slab whose locals are L.
Slab_result(L, lx, ly, h_mm, g, q, concrete, steel, cover, support_type) ==
    LET head == [raised |-> "none",
                 lx |-> lx, ly |-> ly, thickness |-> h_mm, g |-> g, q |-> q,
                 concrete |-> concrete, steel |-> steel, cover |-> cover,
                 ratio |-> RoundDiv(ly * 100, lx),
                 q_Ed |-> RoundTo(L.q_Ed, 100),
                 fcd |-> RoundDiv(L.fck * 200, 3), fyd |-> RoundDiv(L.fyk * 1000, 115),
                 d_x |-> L.d_mm, d_y |-> L.d2_mm,
                 is_one_way |-> L.is_one_way, h_mm |-> h_mm]
        tail == [Ld_basic |-> RoundTo(L.Ld_basic, 1000),
                 Ld_actual |-> RoundTo(L.Ld_actual, 1000),
                 deflection_ok |-> L.deflection_ok]
    IN  IF L.is_one_way
        THEN head @@ tail @@
             [M_Ed_span_x |-> RoundTo(L.M_Ed_span, 100),
              M_Ed_support_x |-> RoundTo(L.M_Ed_support, 100),
              mu_span |-> RoundTo(L.mu_span, 10000),
              As_span_x |-> RoundTo(L.As_span, 1000),
              As_transverse |-> RoundTo(L.As_transverse, 1000),
              As_min |-> RoundTo(L.As_min, 1000),
              reinf_span_x |-> select_reinforcement(L.As_span, h_mm, "main"),
              reinf_transverse |-> select_reinforcement(L.As_transverse, h_mm, "secondary")]
             @@ (IF L.M_Ed_support > 0
                 THEN [As_support_x |-> RoundTo(L.As_sup, 1000),
                       reinf_support_x |-> select_reinforcement(L.As_sup, h_mm, "main")]
                 ELSE <<>>)
        ELSE head @@ tail @@
             [alpha_x |-> RoundTo(L.alpha_x, 10000), alpha_y |-> RoundTo(L.alpha_y, 10000),
              M_Ed_x |-> RoundTo(L.M_Ed_x, 100), M_Ed_y |-> RoundTo(L.M_Ed_y, 100),
              M_Ed_x_sup |-> RoundTo(L.M_Ed_x_sup, 100),
              M_Ed_y_sup |-> RoundTo(L.M_Ed_y_sup, 100),
              mu_x |-> RoundTo(L.mu_x, 10000), mu_y |-> RoundTo(L.mu_y, 10000),
              As_x |-> RoundTo(L.As_x, 1000), As_y |-> RoundTo(L.As_y, 1000),
              As_min |-> RoundTo(L.As_min, 1000),
              reinf_x |-> select_reinforcement(L.As_x, h_mm, "main"),
              reinf_y |-> select_reinforcement(L.As_y, h_mm, "main")]
             @@ (IF L.M_Ed_x_sup > 0
                 THEN [As_x_sup |-> RoundTo(L.As_x_sup, 1000),
                       As_y_sup |-> RoundTo(L.As_y_sup, 1000),
                       reinf_x_sup |-> select_reinforcement(L.As_x_sup, h_mm, "main"),
                       reinf_y_sup |-> select_reinforcement(L.As_y_sup, h_mm, "main")]
                 ELSE <<>>)

calculate_slab(lx, ly, h_mm, g, q, concrete, steel, cover, support_type) ==
    IF concrete \notin DOMAIN Slab_CONCRETE_GRADES \/ steel \notin DOMAIN Slab_STEEL_GRADES
    THEN [raised |-> "KeyError"]
    ELSE CHOOSE result \in
           {Slab_result(L, lx, ly, h_mm, g, q, concrete, steel, cover, support_type) :
              L \in {Slab_locals(lx, ly, h_mm, g, q, concrete, steel, cover,
                                 support_type)}} : TRUE

\* What the model keeps of the locals of a call of calculate_slab.
Slab_trace(lx, ly, h_mm, g, q, concrete, steel, cover, support_type) ==
    IF concrete \notin DOMAIN Slab_CONCRETE_GRADES \/ steel \notin DOMAIN Slab_STEEL_GRADES
    THEN [reached |-> "lookup"]
    ELSE [reached |-> "return"]
         @@ Slab_locals(lx, ly, h_mm, g, q, concrete, steel, cover, support_type)


(***************************************************************************)
(* beam_shear.py                                                           *)
(***************************************************************************)
Shear_CONCRETE_GRADES ==
    [C20_25 |-> [fck |-> 20, fctm |-> 221],
     C25_30 |-> [fck |-> 25, fctm |-> 256],
     C30_37 |-> [fck |-> 30, fctm |-> 290],
     C35_45 |-> [fck |-> 35, fctm |-> 321],
     C40_50 |-> [fck |-> 40, fctm |-> 351],
     C45_55 |-> [fck |-> 45, fctm |-> 380],
     C50_60 |-> [fck |-> 50, fctm |-> 407]]

Shear_STEEL_GRADES ==
    [B500SP |-> [fyk |-> 500],
     B500A  |-> [fyk |-> 500],
     B500B  |-> [fyk |-> 500],
     B400   |-> [fyk |-> 400]]

Shear_STIRRUP_DIAMETERS == <<8, 10, 12>>

\* 1 / math.tan(math.radians(theta_deg)) in 1e-4, for the angles the model calls with
CotTheta(theta_deg) ==
    CASE theta_deg = 45 -> 10000
      [] theta_deg = 30 -> 17321
      [] theta_deg = 22 -> 24751

\* The largest r with (r / 1000)^3 <= num / den, by bisection on lo..hi: the cube
\* root in 1e-3.
RECURSIVE IcbrtBetween(_, _, _, _)
IcbrtBetween(num, den, lo, hi) ==
    IF lo >= hi THEN lo
    ELSE CHOOSE root \in
           {IF RatCmp(mid * mid, 1000000000, num, den * mid) <= 0
            THEN IcbrtBetween(num, den, mid, hi)
            ELSE IcbrtBetween(num, den, lo, mid - 1) : mid \in {(lo + hi + 1) \div 2}} : TRUE

\* the result flag "safe": V_Ed <= V_Rd_max
Shear_safe(V_Ed, V_Rd_max) == V_Ed <= V_Rd_max

\* The stirrup loop "for dia in [8, 10, 12] ... else": <<stirrup_dia, s_required>>.
\* Asw_s is in 1e-6 mm2/mm, s and s_max in 1e-4 mm, s_required in mm.
RECURSIVE Shear_stirrups_from(_, _, _)
Shear_stirrups_from(i, Asw_s, s_max) ==
    IF i > Len(Shear_STIRRUP_DIAMETERS)
    THEN <<12, (MulDiv(2 * bar_area(12), 1000000, Asw_s) \div 100000) * 10>>
    ELSE LET dia == Shear_STIRRUP_DIAMETERS[i]
             s   == MulDiv(2 * bar_area(dia), 1000000, Asw_s)
         IN  IF s <= s_max
             THEN <<dia, Max((s \div 100000) * 10, 50)>>
             ELSE Shear_stirrups_from(i + 1, Asw_s, s_max)

\* The stirrup selection of calculate_shear: made whenever V_Ed > V_Rd_c.
Shear_selection(needs_shear_reinf, Asw_s, s_max) ==
    IF needs_shear_reinf THEN Shear_stirrups_from(1, Asw_s, s_max) ELSE <<0, 0>>

\* The locals of calculate_shear.  V_Ed is in kN, As_l in mm2; b_mm * d_mm > 0.
Shear_locals(b_mm, d_mm, V_Ed, concrete, steel, As_l, theta_deg) ==
    LET fck  == Shear_CONCRETE_GRADES[concrete].fck
        fyk  == Shear_STEEL_GRADES[steel].fyk
        bd   == b_mm * d_mm
        V_Ed_4 == V_Ed * 10000
        \* k = min(1 + sqrt(200 / d_mm), 2.0), 1e-4
        k    == Min(10000 + Isqrt(MulDiv(200, 100000000, d_mm)), 20000)
        \* (100 * rho_l * fck) ** (1/3), 1e-3, with rho_l = min(As_l / (b d), 0.02)
        cube == IF As_l > 0
                THEN (IF 50 * As_l < bd
                      THEN IcbrtBetween(100 * As_l * fck, bd, 0, 4642)
                      ELSE IcbrtBetween(2 * fck, 1, 0, 4642))
                ELSE 0
        \* V_Rd_c = (0.18 / 1.5) * k * cube * b * d / 1000, 1e-4 kN
        V_Rd_c_first == MulDiv(12 * k * cube, bd, 100000000)
        \* v_min = 0.035 * k ** 1.5 * fck ** 0.5
        k15  == MulDiv(k, Isqrt(k * 10000), 10000)
        sqrt_fck == Isqrt(fck * 1000000)
        V_Rd_c_min == MulDiv(MulDiv(35 * k15, sqrt_fck, 1000), bd, 1000000)
        V_Rd_c == Max(V_Rd_c_first, V_Rd_c_min)
        needs_shear_reinf == V_Ed_4 > V_Rd_c
        cot_theta == CotTheta(theta_deg)
        \* V_Rd_max = b * 0.9 * d * nu_1 * fcd * cot / (1 + cot^2) / 1000
        \*          = b d (250 - fck) fck * 0.00144 * cot / (1 + cot^2), 1e-4 kN
        V_Rd_max == MulDiv(MulDiv(bd * (250 - fck), fck * 144, 10000),
                           cot_theta * 10000, 100000000 + cot_theta * cot_theta)
        \* Asw_s = V_Ed_N / (0.9 * d * fywd * cot), 1e-6 mm2/mm
        Asw_s == IF needs_shear_reinf
                 THEN MulDiv(MulDiv(11500 * V_Ed, 1000000, 9 * d_mm * fyk), 10000, cot_theta)
                 ELSE 0
        s_max == Min(7500 * d_mm, 6000000)
        sel   == Shear_selection(needs_shear_reinf, Asw_s, s_max)
    IN  [fck |-> fck, fyk |-> fyk, k |-> k, V_Ed |-> V_Ed_4,
         V_Rd_c |-> V_Rd_c, V_Rd_max |-> V_Rd_max,
         needs_shear_reinf |-> needs_shear_reinf,
         Asw_s |-> Asw_s, s_max |-> s_max,
         stirrup_dia |-> sel[1], s_required |-> sel[2],
         safe |-> Shear_safe(V_Ed_4, V_Rd_max)]

\* The record returned by calculate_shear whose locals are L.
Shear_result(L, b_mm, d_mm, V_Ed, concrete, steel, theta_deg) ==
        [raised |-> "none",
         b |-> b_mm, d |-> d_mm, V_Ed |-> V_Ed,
         concrete |-> concrete, steel |-> steel,
         fck |-> L.fck,
         fcd |-> RoundDiv(L.fck * 200, 3),
         fywd |-> RoundDiv(L.fyk * 1000, 115),
         k |-> RoundTo(L.k, 10),
         V_Rd_c |-> RoundTo(L.V_Rd_c, 1000),
         V_Rd_max |-> RoundTo(L.V_Rd_max, 1000),
         needs_shear_reinf |-> L.needs_shear_reinf,
         theta_deg |-> theta_deg,
         Asw_s |-> RoundTo(L.Asw_s, 100),
         stirrup_dia |-> L.stirrup_dia,
         n_legs |-> 2,
         s_required |-> L.s_required,
         safe |-> L.safe]

\* calculate_shear with a grade that is absent read as the default grade of
\* the command line, so that a result is always produced
calculate_shear_defaulting(b_mm, d_mm, V_Ed, concrete, steel, As_l, theta_deg) ==
    CHOOSE result \in
      {Shear_result(L, b_mm, d_mm, V_Ed, concrete, steel, theta_deg) :
         L \in {Shear_locals(b_mm, d_mm, V_Ed,
                             IF concrete \in DOMAIN Shear_CONCRETE_GRADES
                             THEN concrete ELSE "C30_37",
                             IF steel \in DOMAIN Shear_STEEL_GRADES
                             THEN steel ELSE "B500SP",
                             As_l, theta_deg)}} : TRUE

calculate_shear(b_mm, d_mm, V_Ed, concrete, steel, As_l, theta_deg) ==
    IF concrete \notin DOMAIN Shear_CONCRETE_GRADES \/ steel \notin DOMAIN Shear_STEEL_GRADES
    THEN [raised |-> "KeyError"]
    ELSE CHOOSE result \in
           {Shear_result(L, b_mm, d_mm, V_Ed, concrete, steel, theta_deg) :
              L \in {Shear_locals(b_mm, d_mm, V_Ed, concrete, steel, As_l, theta_deg)}} : TRUE

\* What the model keeps of the locals of a call of calculate_shear.
Shear_trace(b_mm, d_mm, V_Ed, concrete, steel, As_l, theta_deg) ==
    IF concrete \notin DOMAIN Shear_CONCRETE_GRADES \/ steel \notin DOMAIN Shear_STEEL_GRADES
    THEN [reached |-> "lookup"]
    ELSE [reached |-> "return"]
         @@ Shear_locals(b_mm, d_mm, V_Ed, concrete, steel, As_l, theta_deg)


(***************************************************************************)
(* steel_beam.py.  tw, tf, Wely, Wply, Av and mass are in tenths of the    *)
(* unit of the table (mm, cm3, cm2, kg/m); Iy is in cm4; the entries of a  *)
(* series are in the order of the dictionary.                              *)
(***************************************************************************)
PROFILES ==
    [IPE |-> <<
         [name |-> "IPE200", h |-> 200, b |-> 100, tw |-> 56, tf |-> 85, Iy |-> 1943,
          Wely |-> 1943, Wply |-> 2206, Av |-> 140, mass |-> 224],
         [name |-> "IPE220", h |-> 220, b |-> 110, tw |-> 59, tf |-> 92, Iy |-> 2772,
          Wely |-> 2520, Wply |-> 2854, Av |-> 163, mass |-> 262],
         [name |-> "IPE240", h |-> 240, b |-> 120, tw |-> 62, tf |-> 98, Iy |-> 3892,
          Wely |-> 3243, Wply |-> 3666, Av |-> 185, mass |-> 307],
         [name |-> "IPE270", h |-> 270, b |-> 135, tw |-> 66, tf |-> 102, Iy |-> 5790,
          Wely |-> 4289, Wply |-> 4840, Av |-> 221, mass |-> 361],
         [name |-> "IPE300", h |-> 300, b |-> 150, tw |-> 71, tf |-> 107, Iy |-> 8356,
          Wely |-> 5571, Wply |-> 6284, Av |-> 262, mass |-> 422],
         [name |-> "IPE330", h |-> 330, b |-> 160, tw |-> 75, tf |-> 115, Iy |-> 11770,
          Wely |-> 7131, Wply |-> 8043, Av |-> 308, mass |-> 491],
         [name |-> "IPE360", h |-> 360, b |-> 170, tw |-> 80, tf |-> 127, Iy |-> 16270,
          Wely |-> 9036, Wply |-> 10190, Av |-> 351, mass |-> 571],
         [name |-> "IPE400", h |-> 400, b |-> 180, tw |-> 86, tf |-> 135, Iy |-> 23130,
          Wely |-> 11560, Wply |-> 13070, Av |-> 427, mass |-> 663],
         [name |-> "IPE450", h |-> 450, b |-> 190, tw |-> 94, tf |-> 146, Iy |-> 33740,
          Wely |-> 15000, Wply |-> 17020, Av |-> 510, mass |-> 776],
         [name |-> "IPE500", h |-> 500, b |-> 200, tw |-> 102, tf |-> 160, Iy |-> 48200,
          Wely |-> 19280, Wply |-> 21940, Av |-> 599, mass |-> 907],
         [name |-> "IPE550", h |-> 550, b |-> 210, tw |-> 111, tf |-> 172, Iy |-> 67120,
          Wely |-> 24410, Wply |-> 27870, Av |-> 717, mass |-> 1060],
         [name |-> "IPE600", h |-> 600, b |-> 220, tw |-> 120, tf |-> 190, Iy |-> 92080,
          Wely |-> 30690, Wply |-> 35120, Av |-> 838, mass |-> 1220]>>,
     HEA |-> <<
         [name |-> "HEA200", h |-> 190, b |-> 200, tw |-> 65, tf |-> 100, Iy |-> 3692,
          Wely |-> 3886, Wply |-> 4295, Av |-> 153, mass |-> 423],
         [name |-> "HEA240", h |-> 230, b |-> 240, tw |-> 75, tf |-> 120, Iy |-> 7763,
          Wely |-> 6751, Wply |-> 7446, Av |-> 211, mass |-> 603],
         [name |-> "HEA280", h |-> 270, b |-> 280, tw |-> 80, tf |-> 130, Iy |-> 13670,
          Wely |-> 10130, Wply |-> 11120, Av |-> 264, mass |-> 764],
         [name |-> "HEA300", h |-> 290, b |-> 300, tw |-> 85, tf |-> 140, Iy |-> 18260,
          Wely |-> 12600, Wply |-> 13830, Av |-> 298, mass |-> 883],
         [name |-> "HEA360", h |-> 350, b |-> 300, tw |-> 100, tf |-> 175, Iy |-> 33090,
          Wely |-> 18910, Wply |-> 20880, Av |-> 416, mass |-> 1120],
         [name |-> "HEA400", h |-> 390, b |-> 300, tw |-> 110, tf |-> 190, Iy |-> 45070,
          Wely |-> 23110, Wply |-> 25620, Av |-> 492, mass |-> 1250]>>,
     HEB |-> <<
         [name |-> "HEB200", h |-> 200, b |-> 200, tw |-> 90, tf |-> 150, Iy |-> 5696,
          Wely |-> 5696, Wply |-> 6425, Av |-> 225, mass |-> 613],
         [name |-> "HEB240", h |-> 240, b |-> 240, tw |-> 100, tf |-> 170, Iy |-> 11260,
          Wely |-> 9383, Wply |-> 10530, Av |-> 300, mass |-> 832],
         [name |-> "HEB280", h |-> 280, b |-> 280, tw |-> 105, tf |-> 180, Iy |-> 19270,
          Wely |-> 13760, Wply |-> 15340, Av |-> 370, mass |-> 1030],
         [name |-> "HEB300", h |-> 300, b |-> 300, tw |-> 110, tf |-> 190, Iy |-> 25170,
          Wely |-> 16780, Wply |-> 18690, Av |-> 413, mass |-> 1170],
         [name |-> "HEB360", h |-> 360, b |-> 300, tw |-> 125, tf |-> 225, Iy |-> 43190,
          Wely |-> 24000, Wply |-> 26830, Av |-> 541, mass |-> 1420],
         [name |-> "HEB400", h |-> 400, b |-> 300, tw |-> 135, tf |-> 240, Iy |-> 57680,
          Wely |-> 28840, Wply |-> 32320, Av |-> 631, mass |-> 1550]>>]

Steel_STEEL_GRADES ==
    [S235 |-> [fy |-> 235, fu |-> 360],
     S275 |-> [fy |-> 275, fu |-> 430],
     S355 |-> [fy |-> 355, fu |-> 510],
     S460 |-> [fy |-> 460, fu |-> 550]]

Steel_GAMMA_G == 135

Steel_GAMMA_Q == 150

\* math.sqrt(3) in 1e-7
SQRT_3 == 17320508

\* round(a * b / c), half to even
RoundMulDiv(a, b, c) ==
    LET qr == MulDivQR(a, b, c)
    IN  IF 2 * qr[2] < c THEN qr[1]
        ELSE IF 2 * qr[2] > c THEN qr[1] + 1
        ELSE IF qr[1] % 2 = 0 THEN qr[1] ELSE qr[1] + 1

\* sorted(profiles.items(), key=mass): a stable ascending sort
RECURSIVE InsertByMass(_, _)
InsertByMass(p, sorted) ==
    IF sorted = <<>> THEN <<p>>
    ELSE IF p.mass < Head(sorted).mass THEN <<p>> \o sorted
    ELSE <<Head(sorted)>> \o InsertByMass(p, Tail(sorted))

RECURSIVE SortByMassFrom(_, _)
SortByMassFrom(done, rest) ==
    IF rest = <<>> THEN done
    ELSE CHOOSE sorted \in
           {SortByMassFrom(d, r) : d \in {InsertByMass(Head(rest), done)},
                                   r \in {Tail(rest)}} : TRUE

SortByMass(profiles) == SortByMassFrom(<<>>, profiles)

\* the combination with the two partial factors exchanged
Steel_q_Ed_exchanged(g, q) == Steel_GAMMA_Q * g + Steel_GAMMA_G * q

\* q_Ed = GAMMA_G * g + GAMMA_Q * q, in 1e-4 kN/m
Steel_q_Ed(g, q) == Steel_GAMMA_G * g + Steel_GAMMA_Q * q

\* wply_ok: Wply >= Wply_req = M_Ed * 1e3 / fy with M_Ed = q_Ed * span^2 / 8,
\* compared exactly as Wply * fy / span^2 >= q_Ed / 800
Steel_wply_ok(p, fy, q_Ed, span) == RatCmp(p.Wply * fy, span * span, q_Ed, 800) >= 0

\* iy_ok: Iy >= Iy_req = 5 q_char span^4 1e12 / (384 E delta_max) / 1e4
\*                     = q_char * span^3 * deflection_limit / 161.28,
\* compared exactly as Iy / span^3 >= q_char * deflection_limit / 16128000
Steel_iy_ok(p, q_char, span, deflection_limit) ==
    RatCmp(p.Iy, span * span * span, q_char * deflection_limit, 16128000) >= 0

\* V_pl_Rd = Av * 100 * fy / (sqrt(3) * GAMMA_M0) / 1000, 1e-4 kN
Steel_V_pl_Rd(p, fy) == MulDiv(p.Av * fy * 100, 10000000, SQRT_3)

\* the shear test turned round: the shear force at least the resistance
Steel_shear_ok_at_least(p, fy, q_Ed, span) == MulDiv(q_Ed, span, 20) >= Steel_V_pl_Rd(p, fy)

\* shear_ok: V_Ed <= V_pl_Rd with V_Ed = q_Ed * span / 2, 1e-4 kN
Steel_shear_ok(p, fy, q_Ed, span) == MulDiv(q_Ed, span, 20) <= Steel_V_pl_Rd(p, fy)

\* the test of a profile without its deflection and shear conditions
Steel_passes_bending_only(p, fy, q_Ed, q_char, span, deflection_limit) ==
    Steel_wply_ok(p, fy, q_Ed, span)

Steel_passes(p, fy, q_Ed, q_char, span, deflection_limit) ==
    /\ Steel_wply_ok(p, fy, q_Ed, span)
    /\ Steel_iy_ok(p, q_char, span, deflection_limit)
    /\ Steel_shear_ok(p, fy, q_Ed, span)

\* The record appended for a profile that passes.
Steel_candidate(p, fy, q_Ed, q_char, span) ==
    LET M_Ed    == MulDiv(q_Ed, span * span, 800)
        V_Ed    == MulDiv(q_Ed, span, 20)
        \* delta_actual = 5 q_char span^4 1e12 / (384 E Iy 1e4), 1e-3 mm
        delta   == MulDiv(MulDiv(q_char * span, span * span * span, 16128), 100, p.Iy)
        M_pl_Rd == p.Wply * fy
        V_pl_Rd == Steel_V_pl_Rd(p, fy)
    IN  [name |-> p.name, mass |-> p.mass, h |-> p.h, Wply |-> p.Wply, Iy |-> p.Iy,
         M_pl_Rd |-> RoundTo(M_pl_Rd, 1000),
         V_pl_Rd |-> RoundTo(V_pl_Rd, 1000),
         delta_mm |-> RoundTo(delta, 100),
         L_over_delta |-> IF delta > 0 THEN RoundDiv(span * 100000, delta) ELSE 9999,
         util_M |-> RoundMulDiv(M_Ed, 1000, M_pl_Rd),
         util_V |-> RoundMulDiv(V_Ed, 1000, V_pl_Rd)]

\* The list "candidates" of select_beam when its loop over the profiles, taken
\* in ascending mass, ends.
RECURSIVE Steel_candidates_from(_, _, _, _, _, _)
Steel_candidates_from(profiles, fy, q_Ed, q_char, span, deflection_limit) ==
    IF profiles = <<>> THEN <<>>
    ELSE (IF Steel_passes(Head(profiles), fy, q_Ed, q_char, span, deflection_limit)
          THEN <<Steel_candidate(Head(profiles), fy, q_Ed, q_char, span)>>
          ELSE <<>>)
         \o Steel_candidates_from(Tail(profiles), fy, q_Ed, q_char, span, deflection_limit)

Steel_candidates(span, g, q, steel_grade, series, deflection_limit) ==
    Steel_candidates_from(SortByMass(PROFILES[series]), Steel_STEEL_GRADES[steel_grade].fy,
                          Steel_q_Ed(g, q), g + q, span, deflection_limit)

\* span is in 0.1 m, g and q in 0.01 kN/m; span > 0 and deflection_limit > 0.
select_beam(span, g, q, steel_grade, series, deflection_limit) ==
    IF steel_grade \notin DOMAIN Steel_STEEL_GRADES \/ series \notin DOMAIN PROFILES
    THEN [raised |-> "KeyError"]
    ELSE
    LET fy   == Steel_STEEL_GRADES[steel_grade].fy
        q_Ed == Steel_q_Ed(g, q)
        M_Ed == MulDiv(q_Ed, span * span, 800)
    IN  [raised |-> "none",
         span |-> span, g |-> g, q |-> q, steel |-> steel_grade, fy |-> fy,
         series |-> series,
         q_Ed |-> RoundTo(q_Ed, 100),
         M_Ed |-> RoundTo(M_Ed, 100),
         V_Ed |-> RoundTo(MulDiv(q_Ed, span, 20), 100),
         Wply_req |-> RoundDiv(M_Ed, fy),
         Iy_req |-> RoundMulDiv((g + q) * deflection_limit, span * span * span, 16128000),
         deflection_limit |-> deflection_limit,
         candidates |-> Truncate(Steel_candidates(span, g, q, steel_grade, series,
                                                  deflection_limit), 5)]

\* What the model keeps of the locals of a call of select_beam.
Steel_trace(span, g, q, steel_grade, series, deflection_limit) ==
    IF steel_grade \notin DOMAIN Steel_STEEL_GRADES \/ series \notin DOMAIN PROFILES
    THEN [reached |-> "lookup"]
    ELSE [reached |-> "return",
          fy |-> Steel_STEEL_GRADES[steel_grade].fy,
          q_Ed |-> Steel_q_Ed(g, q),
          q_char |-> g + q,
          profiles |-> SortByMass(PROFILES[series]),
          candidates |-> Steel_candidates(span, g, q, steel_grade, series, deflection_limit)]


(***************************************************************************)
(* The inputs of the calls.                                                *)
(***************************************************************************)
\* the number of 5 kN/m steps of the characteristic loads
MaxLoadSteps == 4

\* the number of 150 mm2 steps of a required area handed to a bar search
MaxAreaSteps == 24

\* the number of 500 kN steps of the axial force of a column
MaxAxialSteps == 4

\* characteristic loads, 0.01 kN/m
Loads == {500 * k : k \in 0..MaxLoadSteps}

\* <<b_mm, h_mm, cover>>
BeamSections == {<<300, 600, 35>>, <<300, 310, 31>>, <<200, 200, 20>>, <<200, 400, 35>>}

\* <<b_mm, h_mm, cover>>
ColumnSections == {<<400, 400, 30>>, <<300, 300, 30>>, <<250, 250, 25>>, <<300, 600, 30>>}

\* <<b_mm, d_mm>>
ShearSections == {<<300, 555>>, <<200, 300>>}

\* <<lx, ly>> in 0.1 m
SlabSpans == {<<40, 40>>, <<40, 56>>, <<40, 58>>, <<40, 80>>, <<40, 100>>}

\* the spans of a direct call of interpolate_coeff, in 0.1 m: the ratio is
\* ly / lx with lx in CoeffShortSpans and ly in 1..MaxCoeffSpan
MaxCoeffSpan == 70

CoeffShortSpans == {20, 30}

CoeffTables == {"simply_supported", "all_fixed"}

SupportTypes == {"simply_supported", "all_fixed", "one_way"}

\* grade names, some of them in no catalog or not in every catalog
Concretes == {"C30_37", "C35_45", "C50_60", "C60_75"}

Steels == {"B500SP", "B400", "B600"}

SectionSteels == {"S235", "S355", "S999"}

Series == {"IPE", "HEB", "UPE"}

\* variable loads of a steel beam, 0.01 kN/m
SteelLiveLoads == {0, 1000, 5000, 40000}

\* required areas handed to a bar search, 1e-4 mm2
RequiredAreas ==
    {1500000 * k : k \in 1..MaxAreaSteps}
        \cup {n * bar_area(dia) : n \in 1..3, dia \in {12, 16, 20, 25, 32}}
        \cup {2 * bar_area(12) + 1, 13 * bar_area(32) + 1, 400000000}

(***************************************************************************)
(* The state: the pending call of the interpreter (op, args), what it      *)
(* returned or raised (res), the locals it computed on the way (loc), the  *)
(* module-level tables as the interpreter holds them (catalogs) and the    *)
(* calls that have returned in this interpreter with what they returned    *)
(* (seen).  A script makes one call and exits (main); Exit is the end of   *)
(* the process, after which a new run loads the modules again.             *)
(***************************************************************************)
\* the module-level tables of the five scripts as they are loaded
Catalogs ==
    [beam_CONCRETE_GRADES   |-> Beam_CONCRETE_GRADES,
     beam_STEEL_GRADES      |-> Beam_STEEL_GRADES,
     BAR_DIAMETERS          |-> BAR_DIAMETERS,
     shear_CONCRETE_GRADES  |-> Shear_CONCRETE_GRADES,
     shear_STEEL_GRADES     |-> Shear_STEEL_GRADES,
     column_CONCRETE_GRADES |-> Col_CONCRETE_GRADES,
     column_STEEL_GRADES    |-> Col_STEEL_GRADES,
     slab_CONCRETE_GRADES   |-> Slab_CONCRETE_GRADES,
     slab_STEEL_GRADES      |-> Slab_STEEL_GRADES,
     COEFF_SIMPLY_SUPPORTED |-> COEFF_SIMPLY_SUPPORTED,
     COEFF_ALL_FIXED        |-> COEFF_ALL_FIXED,
     PROFILES               |-> PROFILES,
     steel_STEEL_GRADES     |-> Steel_STEEL_GRADES]

\* a variant of Catalogs_after: the bar search consumes the diameter it tried
Catalogs_after_consuming(name, tables) ==
    IF name = "find_bars" /\ tables.BAR_DIAMETERS # <<>>
    THEN [tables EXCEPT !.BAR_DIAMETERS = Tail(@)]
    ELSE tables

\* the tables after the call of the function `name`: the functions read the
\* tables (a lookup by key, an iteration) and build their lists and
\* dictionaries anew; none assigns to a module-level name or to an item of
\* a table, none has a global statement or a cache
Catalogs_after(name, tables) == tables

Init ==
    /\ op = "init"
    /\ args = <<>>
    /\ loc = <<>>
    /\ res = <<>>
    /\ catalogs = Catalogs
    /\ seen = {}

CallFindBars ==
    \E As \in RequiredAreas, b_mm \in {200, 300, 1000}, cover \in {20, 35} :
        /\ op = "init"
        /\ op' = "find_bars"
        /\ args' = [As_required_mm2 |-> As, b_mm |-> b_mm, cover_mm |-> cover,
                    stirrup_dia |-> 8]
        /\ loc' = [candidates |-> Beam_candidates(As, b_mm, cover, 8)]
        /\ res' = [raised |-> "none", proposals |-> find_bars(As, b_mm, cover, 8)]
        /\ catalogs' = Catalogs_after("find_bars", catalogs)
        /\ seen' = seen

CallBeamBending ==
    \E span \in {38, 40, 60}, sec \in BeamSections, g \in Loads, q \in {0, 1000, 6440},
       concrete \in Concretes, steel \in Steels :
      LET b_mm  == sec[1]
          h_mm  == sec[2]
          cover == sec[3]
      IN
        /\ op = "init"
        /\ op' = "calculate_beam_bending"
        /\ args' = [span |-> span, b |-> b_mm, h |-> h_mm, g |-> g, q |-> q,
                    concrete |-> concrete, steel |-> steel, cover |-> cover]
        /\ loc' = Beam_trace(span, b_mm, h_mm, g, q, concrete, steel, cover)
        /\ res' = calculate_beam_bending(span, b_mm, h_mm, g, q, concrete, steel, cover)
        /\ catalogs' = Catalogs_after("calculate_beam_bending", catalogs)
        /\ seen' = seen

CallShear ==
    \E sec \in ShearSections, V_Ed \in {50, 180, 400, 500, 900, 2000},
       concrete \in Concretes, steel \in Steels, As_l \in {0, 1500},
       theta_deg \in {45, 30} :
      LET b_mm == sec[1]
          d_mm == sec[2]
      IN
        /\ op = "init"
        /\ op' = "calculate_shear"
        /\ args' = [b |-> b_mm, d |-> d_mm, V_Ed |-> V_Ed, concrete |-> concrete,
                    steel |-> steel, As_l |-> As_l, theta_deg |-> theta_deg]
        /\ loc' = Shear_trace(b_mm, d_mm, V_Ed, concrete, steel, As_l, theta_deg)
        /\ res' = calculate_shear(b_mm, d_mm, V_Ed, concrete, steel, As_l, theta_deg)
        /\ catalogs' = Catalogs_after("calculate_shear", catalogs)
        /\ seen' = seen

CallColumn ==
    \E height_col \in {35, 60}, sec \in ColumnSections,
       N_Ed \in {500 * k : k \in 1..MaxAxialSteps} \cup {11000}, M_Ed \in {0, 80, 200},
       concrete \in Concretes, steel \in Steels, eff_length_factor \in {10, 20} :
      LET b_mm  == sec[1]
          h_mm  == sec[2]
          cover == sec[3]
      IN
        /\ op = "init"
        /\ op' = "calculate_column"
        /\ args' = [height_col |-> height_col, b |-> b_mm, h |-> h_mm, N_Ed |-> N_Ed,
                    M_Ed |-> M_Ed, concrete |-> concrete, steel |-> steel,
                    cover |-> cover, eff_length_factor |-> eff_length_factor]
        /\ loc' = Col_trace(height_col, b_mm, h_mm, N_Ed, M_Ed, concrete, steel, cover,
                            eff_length_factor)
        /\ res' = calculate_column(height_col, b_mm, h_mm, N_Ed, M_Ed, concrete, steel,
                                   cover, eff_length_factor)
        /\ catalogs' = Catalogs_after("calculate_column", catalogs)
        /\ seen' = seen

CallSelectReinforcement ==
    \E As \in RequiredAreas, h_mm \in {100, 160, 200}, direction \in {"main", "secondary"} :
        /\ op = "init"
        /\ op' = "select_reinforcement"
        /\ args' = [As_req_per_m |-> As, h_mm |-> h_mm, direction |-> direction]
        /\ loc' = [candidates |-> Slab_candidates(As, h_mm, direction)]
        /\ res' = [raised |-> "none",
                   proposals |-> select_reinforcement(As, h_mm, direction)]
        /\ catalogs' = Catalogs_after("select_reinforcement", catalogs)
        /\ seen' = seen

CallSlab ==
    \E spans \in SlabSpans, h_mm \in {160, 200}, g \in {0, 650, 1500}, q \in {0, 2000, 6000},
       concrete \in Concretes, steel \in Steels, support_type \in SupportTypes :
      LET lx == spans[1]
          ly == spans[2]
      IN
        /\ op = "init"
        /\ op' = "calculate_slab"
        /\ args' = [lx |-> lx, ly |-> ly, thickness |-> h_mm, g |-> g, q |-> q,
                    concrete |-> concrete, steel |-> steel, cover |-> 25,
                    support_type |-> support_type]
        /\ loc' = Slab_trace(lx, ly, h_mm, g, q, concrete, steel, 25, support_type)
        /\ res' = calculate_slab(lx, ly, h_mm, g, q, concrete, steel, 25, support_type)
        /\ catalogs' = Catalogs_after("calculate_slab", catalogs)
        /\ seen' = seen

CallSelectBeam ==
    \E span \in {10, 40, 60, 80}, g \in Loads, q \in SteelLiveLoads,
       steel_grade \in SectionSteels, series \in Series, deflection_limit \in {250, 300} :
        /\ op = "init"
        /\ op' = "select_beam"
        /\ args' = [span |-> span, g |-> g, q |-> q, steel_grade |-> steel_grade,
                    series |-> series, deflection_limit |-> deflection_limit]
        /\ loc' = Steel_trace(span, g, q, steel_grade, series, deflection_limit)
        /\ res' = select_beam(span, g, q, steel_grade, series, deflection_limit)
        /\ catalogs' = Catalogs_after("select_beam", catalogs)
        /\ seen' = seen

CallInterpolateCoeff ==
    \E name \in CoeffTables, lx \in CoeffShortSpans, ly \in 1..MaxCoeffSpan :
        /\ op = "init"
        /\ op' = "interpolate_coeff"
        /\ args' = [table |-> name, lx |-> lx, ly |-> ly]
        /\ loc' = [reached |-> "return"]
        /\ res' = [raised |-> "none",
                   coeffs |-> interpolate_coeff(IF name = "all_fixed" THEN COEFF_ALL_FIXED
                                                ELSE COEFF_SIMPLY_SUPPORTED, ly, lx)]
        /\ catalogs' = Catalogs_after("interpolate_coeff", catalogs)
        /\ seen' = seen

Exit ==
    /\ op # "init"
    /\ op' = "init"
    /\ args' = <<>>
    /\ loc' = <<>>
    /\ res' = <<>>
    /\ catalogs' = Catalogs
    /\ seen' = {}

Next ==
    \/ CallFindBars
    \/ CallBeamBending
    \/ CallShear
    \/ CallColumn
    \/ CallSelectReinforcement
    \/ CallSlab
    \/ CallSelectBeam
    \/ CallInterpolateCoeff
    \/ Exit

Spec == Init /\ [][Next]_vars

(***************************************************************************)
(* A session: one interpreter that imports the scripts and calls their     *)
(* functions one after another.  Return is the return of a call to the     *)
(* caller, who keeps what it returned; the tables stay as the call left    *)
(* them.  The calls of a session are drawn from SessionArgs, a few of the  *)
(* inputs of each function.                                                *)
(***************************************************************************)
\* the number of different calls a session remembers
MaxSessionCalls == 2

SessionArgs ==
    {[As_required_mm2 |-> 6000000, b_mm |-> 300, cover_mm |-> 35, stirrup_dia |-> 8],
     [As_required_mm2 |-> 400000000, b_mm |-> 200, cover_mm |-> 20, stirrup_dia |-> 8],
     [span |-> 60, b |-> 300, h |-> 600, g |-> 1500, q |-> 1000, concrete |-> "C30_37",
      steel |-> "B500SP", cover |-> 35],
     [span |-> 60, b |-> 200, h |-> 200, g |-> 2000, q |-> 6440, concrete |-> "C30_37",
      steel |-> "B500SP", cover |-> 20],
     [span |-> 40, b |-> 300, h |-> 600, g |-> 500, q |-> 0, concrete |-> "C60_75",
      steel |-> "B500SP", cover |-> 35],
     [b |-> 300, d |-> 555, V_Ed |-> 180, concrete |-> "C30_37", steel |-> "B500SP",
      As_l |-> 0, theta_deg |-> 45],
     [height_col |-> 35, b |-> 300, h |-> 300, N_Ed |-> 1000, M_Ed |-> 80,
      concrete |-> "C30_37", steel |-> "B500SP", cover |-> 30, eff_length_factor |-> 10],
     [As_req_per_m |-> 3000000, h_mm |-> 160, direction |-> "main"],
     [lx |-> 40, ly |-> 56, thickness |-> 160, g |-> 650, q |-> 2000,
      concrete |-> "C30_37", steel |-> "B500SP", cover |-> 25,
      support_type |-> "all_fixed"],
     [lx |-> 40, ly |-> 100, thickness |-> 200, g |-> 650, q |-> 2000,
      concrete |-> "C35_45", steel |-> "B500SP", cover |-> 25,
      support_type |-> "simply_supported"],
     [span |-> 60, g |-> 1000, q |-> 1000, steel_grade |-> "S355", series |-> "IPE",
      deflection_limit |-> 250],
     [table |-> "all_fixed", lx |-> 20, ly |-> 29]}

Return ==
    /\ op # "init"
    /\ Cardinality(seen \cup {[op |-> op, args |-> args, res |-> res]}) <= MaxSessionCalls
    /\ seen' = seen \cup {[op |-> op, args |-> args, res |-> res]}
    /\ op' = "init"
    /\ args' = <<>>
    /\ loc' = <<>>
    /\ res' = <<>>
    /\ catalogs' = catalogs

SessionNext ==
    \/ args' \in SessionArgs /\ CallFindBars
    \/ args' \in SessionArgs /\ CallBeamBending
    \/ args' \in SessionArgs /\ CallShear
    \/ args' \in SessionArgs /\ CallColumn
    \/ args' \in SessionArgs /\ CallSelectReinforcement
    \/ args' \in SessionArgs /\ CallSlab
    \/ args' \in SessionArgs /\ CallSelectBeam
    \/ args' \in SessionArgs /\ CallInterpolateCoeff
    \/ Return
    \/ Exit

SessionSpec == Init /\ [][SessionNext]_vars

(***************************************************************************)
(* Properties of the bar searches and of the evaluators.                   *)
(***************************************************************************)
BeamReturned == op = "calculate_beam_bending" /\ res.raised = "none"

BeamSucceeded == BeamReturned /\ ~res.error

ColumnReturned == op = "calculate_column" /\ res.raised = "none"

\* the area of the bars of a proposal <<n, dia>>
AreaOfBars(n, dia) == n * bar_area(dia)

\* the bars per metre of a slab proposal
BarsPerMetre(p) == CeilDiv(1000, p.spacing)

AtLeastOne(ratio) == ratio.num >= ratio.den

\* C1: every proposal returned by the beam search (called directly or by
\* calculate_beam_bending), by the bar search of calculate_column and by the
\* slab search provides at least the area it was searched for: the area of its
\* bars is >= required and its margin ratio is >= 1.
C1_ProvidedCoversRequired ==
    /\ op = "find_bars" =>
         \A i \in DOMAIN res.proposals :
            /\ AreaOfBars(res.proposals[i].n, res.proposals[i].dia) >= args.As_required_mm2
            /\ res.proposals[i].As_provided >= args.As_required_mm2
            /\ AtLeastOne(res.proposals[i].ratio)
    /\ BeamSucceeded =>
         \A i \in DOMAIN res.proposals :
            /\ AreaOfBars(res.proposals[i].n, res.proposals[i].dia) >= loc.As_required
            /\ res.proposals[i].As_provided >= loc.As_required
            /\ AtLeastOne(res.proposals[i].ratio)
    /\ ColumnReturned =>
         \A i \in DOMAIN res.proposals :
            /\ AreaOfBars(res.proposals[i].n, res.proposals[i].dia) >= loc.As_required
            /\ AtLeastOne(res.proposals[i].ratio)
    /\ op = "select_reinforcement" =>
         \A i \in DOMAIN res.proposals :
            /\ AreaOfBars(BarsPerMetre(res.proposals[i]), res.proposals[i].dia)
                 >= args.As_req_per_m
            /\ AtLeastOne(res.proposals[i].ratio)

\* A search whose required area is exactly the area of the bars of one of the
\* proposals it returns (margin 1).
C1_ExactlyCovered ==
    /\ op = "find_bars"
    /\ args.As_required_mm2 > 0
    /\ \E i \in DOMAIN res.proposals :
          AreaOfBars(res.proposals[i].n, res.proposals[i].dia) = args.As_required_mm2

\* C2: every proposal respects the maximum reinforcement: on the success path
\* of calculate_beam_bending As_provided <= As_max = 0.04 b h, and in
\* calculate_column As_provided <= As_max = 0.04 Ac.
C2_ProposalsWithinMaximum ==
    /\ BeamSucceeded =>
         \A i \in DOMAIN res.proposals : res.proposals[i].As_provided <= loc.As_max
    /\ ColumnReturned =>
         \A i \in DOMAIN res.proposals :
            AreaOfBars(res.proposals[i].n, res.proposals[i].dia) <= loc.As_max

\* C3: in calculate_shear, V_Ed > V_Rd_max gives safe = false and no stirrup
\* selection (stirrup_dia = s_required = 0), and safe is true exactly when
\* V_Ed <= V_Rd_max.
C3_UnsafeCarriesNoStirrups ==
    (op = "calculate_shear" /\ res.raised = "none") =>
        /\ loc.V_Ed > loc.V_Rd_max =>
             (res.safe = FALSE /\ res.stirrup_dia = 0 /\ res.s_required = 0)
        /\ res.safe <=> (loc.V_Ed <= loc.V_Rd_max)

\* C4: in calculate_beam_bending, mu > mu_lim gives a returned failure record
\* (error = true) that carries mu, mu_lim, q_Ed and M_Ed and nothing of a
\* design (no steel area, no proposals); mu <= mu_lim gives error = false.
C4_OverLimitIsReportedFailure ==
    (op = "calculate_beam_bending" /\ loc.reached # "lookup") =>
        /\ res.raised = "none"
        /\ IF RatCmp(loc.mu.num, loc.mu.den, loc.mu_lim.num, loc.mu_lim.den) > 0
           THEN /\ res.error = TRUE
                /\ DOMAIN res = {"raised", "error", "message", "M_Ed", "q_Ed", "mu", "mu_lim"}
                /\ res.q_Ed = loc.q_Ed
                /\ res.M_Ed = loc.M_Ed
                /\ res.mu >= res.mu_lim
                /\ loc.reached = "limit"
           ELSE /\ res.error = FALSE
                /\ loc.reached = "return"

\* A call that returned the failure record.
C4_FailureReturned == BeamReturned /\ res.error /\ loc.reached = "limit"

\* C5: the boundary is inclusive: with mu exactly mu_lim the call is accepted
\* (error = false) and goes on to the required area and the proposals.
C5_BoundaryIsAccepted ==
    (/\ op = "calculate_beam_bending"
     /\ loc.reached # "lookup"
     /\ RatCmp(loc.mu.num, loc.mu.den, loc.mu_lim.num, loc.mu_lim.den) = 0) =>
        /\ res.raised = "none"
        /\ res.error = FALSE
        /\ loc.reached = "return"
        /\ {"As_required_mm2", "proposals"} \subseteq DOMAIN res
        /\ res.As_required_mm2 = RoundTo(loc.As_required, 1000)
        /\ res.proposals = find_bars(loc.As_required, args.b, args.cover, 8)

\* A call whose mu is exactly mu_lim.
C5_BoundaryReached ==
    /\ BeamReturned
    /\ RatCmp(loc.mu.num, loc.mu.den, loc.mu_lim.num, loc.mu_lim.den) = 0
    /\ loc.mu.num > 0

\* the call of Scenario 1
Scenario1 ==
    /\ op = "calculate_beam_bending"
    /\ args.span = 60 /\ args.b = 300 /\ args.h = 600
    /\ args.g = 1500 /\ args.q = 1000
    /\ args.concrete = "C30_37"
    /\ args.steel \in DOMAIN Beam_STEEL_GRADES
    /\ Beam_STEEL_GRADES[args.steel].fyk = 500
    /\ args.cover = 35

\* C6 (as amended): Scenario 1 yields q_Ed = 35.25 and M_Ed = 158.62
\* (158.625 rounded to two decimals), an accepted method (mu <= mu_lim,
\* error = false) and at least one bar proposal.
C6_Scenario1Values ==
    Scenario1 =>
        /\ res.raised = "none"
        /\ res.error = FALSE
        /\ res.q_Ed = 352500
        /\ loc.M_Ed = 1586250
        /\ res.M_Ed = 1586200
        /\ RatCmp(loc.mu.num, loc.mu.den, loc.mu_lim.num, loc.mu_lim.den) <= 0
        /\ Len(res.proposals) >= 1

\* Scenario 1 was called and returned.
C6_Scenario1Called == Scenario1 /\ res.raised = "none"

\* C6 (as written): Scenario 1 yields q_Ed = 29.25 and M_Ed = 131.6 (rounded),
\* an accepted method and at least one bar proposal.
C6_Scenario1AsWritten ==
    Scenario1 =>
        /\ res.raised = "none"
        /\ res.error = FALSE
        /\ res.q_Ed = 292500
        /\ RoundTo(loc.M_Ed, 1000) = 1316000
        /\ Len(res.proposals) >= 1

\* F is additive and homogeneous from (g, q), increases strictly with each
\* argument, and is 0 at (0, 0).
LinearIncreasing(F(_, _), g, q) ==
    /\ F(0, 0) = 0
    /\ \A g2 \in Loads, q2 \in Loads :
          /\ F(g + g2, q + q2) = F(g, q) + F(g2, q2)
          /\ g2 > g => F(g2, q) > F(g, q)
          /\ q2 > q => F(g, q2) > F(g, q)
    /\ \A k \in 0..3 : F(k * g, k * q) = k * F(g, q)

\* C7: the beam, slab and steel evaluators combine the loads by the same
\* q_Ed = 1.35 g + 1.50 q (gamma_Q > gamma_G > 1), which is linear, strictly
\* increasing in each argument and 0 for g = q = 0.
C7_LoadCombination ==
    (/\ op \in {"calculate_beam_bending", "calculate_slab", "select_beam"}
     /\ loc.reached # "lookup") =>
        /\ loc.q_Ed = 135 * args.g + 150 * args.q
        /\ Beam_q_Ed(args.g, args.q) = loc.q_Ed
        /\ Slab_q_Ed(args.g, args.q) = loc.q_Ed
        /\ Steel_q_Ed(args.g, args.q) = loc.q_Ed
        /\ Beam_GAMMA_Q > Beam_GAMMA_G /\ Beam_GAMMA_G > 100
        /\ Slab_GAMMA_Q > Slab_GAMMA_G /\ Slab_GAMMA_G > 100
        /\ Steel_GAMMA_Q > Steel_GAMMA_G /\ Steel_GAMMA_G > 100
        /\ LinearIncreasing(Beam_q_Ed, args.g, args.q)
        /\ LinearIncreasing(Slab_q_Ed, args.g, args.q)
        /\ LinearIncreasing(Steel_q_Ed, args.g, args.q)
        /\ (args.g = 0 /\ args.q = 0) => loc.q_Ed = 0

\* The steel evaluator combined two positive loads.
C7_SteelCombined ==
    /\ op = "select_beam"
    /\ loc.reached = "return"
    /\ args.g > 0 /\ args.q > 0
    /\ loc.q_Ed > 0

\* the largest element of a non-empty finite set of integers
MaxOf(S) == CHOOSE m \in S : \A x \in S : m >= x

\* The most the beam catalog can provide in the width: for each diameter the
\* largest count n >= 2 with n * dia + (n - 1) * max(25, dia) <= space.
BeamMostBars(dia, space) == (space + Max(25, dia)) \div (dia + Max(25, dia))

BeamMaxAchievable(b_mm, cover_mm, stirrup_dia) ==
    MaxOf({0} \cup
          {AreaOfBars(BeamMostBars(dia, b_mm - 2 * cover_mm - 2 * stirrup_dia), dia) :
             dia \in {d \in {BAR_DIAMETERS[i] : i \in DOMAIN BAR_DIAMETERS} :
                        /\ d >= 12
                        /\ BeamMostBars(d, b_mm - 2 * cover_mm - 2 * stirrup_dia) >= 2}})

\* The most the column catalog can provide: the largest area of an even count
\* 4..14 of one diameter that keeps the spacing and the maximum As_max.
ColMaxAchievable(b_mm, cover, As_max) ==
    MaxOf({0} \cup
          {AreaOfBars(pair[1], pair[2]) :
             pair \in {pr \in {4, 6, 8, 10, 12, 14} \X {16, 20, 25, 32} :
                        /\ (b_mm - 2 * cover - 2 * 8 - pr[2])
                             >= Max(pr[2], 20) * Max(pr[1] \div 2 - 1, 1)
                        /\ AreaOfBars(pr[1], pr[2]) <= As_max}})

\* The most the slab catalog can provide per metre: bars at the least spacing
\* max(dia + 5, 50).
SlabMaxAchievable ==
    MaxOf({AreaOfBars(CeilDiv(1000, Max(dia + 5, 50)), dia) : dia \in {8, 10, 12, 16, 20}})

\* No profile of the series has the plastic modulus, or the second moment of
\* area, or the shear resistance asked for.
SteelBeyondSeries ==
    LET ps == {PROFILES[args.series][i] : i \in DOMAIN PROFILES[args.series]}
    IN  \/ res.Wply_req > MaxOf({pr.Wply : pr \in ps})
        \/ res.Iy_req > MaxOf({pr.Iy : pr \in ps})
        \/ MulDiv(loc.q_Ed, args.span, 20)
             > MaxOf({Steel_V_pl_Rd(pr, loc.fy) : pr \in ps})

\* C8: a requirement larger than the most the catalog can provide at its
\* densest admissible arrangement gives an empty list, and the call returns
\* normally (beam search, column bar loop, slab search, steel profile search).
C8_InfeasibleIsEmpty ==
    /\ (/\ op = "find_bars"
        /\ args.As_required_mm2
             > BeamMaxAchievable(args.b_mm, args.cover_mm, args.stirrup_dia)) =>
          (res.raised = "none" /\ res.proposals = <<>>)
    /\ (BeamSucceeded /\ loc.As_required > BeamMaxAchievable(args.b, args.cover, 8)) =>
          res.proposals = <<>>
    /\ (/\ op = "calculate_column"
        /\ loc.reached = "return"
        /\ loc.As_required > ColMaxAchievable(args.b, args.cover, loc.As_max)) =>
          (res.raised = "none" /\ res.proposals = <<>>)
    /\ (op = "select_reinforcement" /\ args.As_req_per_m > SlabMaxAchievable) =>
          (res.raised = "none" /\ res.proposals = <<>>)
    /\ (op = "select_beam" /\ loc.reached = "return" /\ SteelBeyondSeries) =>
          (res.raised = "none" /\ res.candidates = <<>>)

\* A beam search for more than the catalog can provide in the width, though
\* the largest bar does fit, which returned the empty list.
C8_BeamInfeasible ==
    /\ op = "find_bars"
    /\ BeamMaxAchievable(args.b_mm, args.cover_mm, args.stirrup_dia) > 0
    /\ args.As_required_mm2 > BeamMaxAchievable(args.b_mm, args.cover_mm, args.stirrup_dia)
    /\ res.raised = "none"
    /\ res.proposals = <<>>

\* ps is in non-decreasing order of margin
SortedByRatio(ps) ==
    \A i \in 1..(Len(ps) - 1) : RatioLeq(ps[i].ratio, ps[i + 1].ratio)

\* ps is the candidates cut to k: every element of ps is a candidate, and a
\* candidate that is not in ps has no smaller margin than any element of ps.
KeepsSmallest(candidates, ps, k) ==
    /\ Len(ps) = Min(Len(candidates), k)
    /\ \A i \in DOMAIN ps : \E j \in DOMAIN candidates : candidates[j] = ps[i]
    /\ \A j \in DOMAIN candidates :
          (\A i \in DOMAIN ps : ps[i] # candidates[j]) =>
              \A i \in DOMAIN ps : RatioLeq(ps[i].ratio, candidates[j].ratio)

\* C9: the list of each bar search is in non-decreasing order of margin and cut
\* to at most 5 (beams) or 4 (columns, slabs), and no candidate that was
\* dropped has a smaller margin than one that was returned.
C9_SortedThenTruncated ==
    /\ (op = "find_bars" \/ BeamSucceeded) =>
          /\ SortedByRatio(res.proposals)
          /\ Len(res.proposals) <= 5
          /\ KeepsSmallest(loc.candidates, res.proposals, 5)
    /\ (ColumnReturned \/ op = "select_reinforcement") =>
          /\ SortedByRatio(res.proposals)
          /\ Len(res.proposals) <= 4
          /\ KeepsSmallest(loc.candidates, res.proposals, 4)

\* A slab search with five feasible diameters, one of which was dropped.
C9_CandidateDropped ==
    /\ op = "select_reinforcement"
    /\ Len(loc.candidates) = 5
    /\ Len(res.proposals) = 4

OnePerDiameter(ps) ==
    \A i \in DOMAIN ps : \A j \in DOMAIN ps : i # j => ps[i].dia # ps[j].dia

\* n is the least count of bars of dia whose area is >= required
LeastCount(n, dia, required) ==
    AreaOfBars(n, dia) >= required /\ AreaOfBars(n - 1, dia) < required

\* n is the least even count in 4..14 of bars of dia whose area is >= required
LeastEvenCount(n, dia, required) ==
    /\ n \in {4, 6, 8, 10, 12, 14}
    /\ AreaOfBars(n, dia) >= required
    /\ \A m \in {4, 6, 8, 10, 12, 14} : m < n => AreaOfBars(m, dia) < required

\* C10: each bar search returns at most one proposal per diameter, with the
\* smallest count that meets the requirement: ceil(required / bar_area) for
\* beams, the smallest even count in 4..14 with count * bar_area >= required
\* for columns.
C10_FirstCountPerDiameter ==
    /\ op = "find_bars" =>
          /\ OnePerDiameter(res.proposals)
          /\ \A i \in DOMAIN res.proposals :
                LeastCount(res.proposals[i].n, res.proposals[i].dia, args.As_required_mm2)
    /\ BeamSucceeded =>
          /\ OnePerDiameter(res.proposals)
          /\ \A i \in DOMAIN res.proposals :
                LeastCount(res.proposals[i].n, res.proposals[i].dia, loc.As_required)
    /\ ColumnReturned =>
          /\ OnePerDiameter(res.proposals)
          /\ \A i \in DOMAIN res.proposals :
                LeastEvenCount(res.proposals[i].n, res.proposals[i].dia, loc.As_required)
    /\ op = "select_reinforcement" => OnePerDiameter(res.proposals)

\* A column whose list holds a proposal of more than four bars, beside another
\* diameter.
C10_ColumnCountAboveFour ==
    /\ ColumnReturned
    /\ Len(res.proposals) >= 2
    /\ \E i \in DOMAIN res.proposals : res.proposals[i].n >= 6

\* C11: every beam proposal has at least 2 bars of a diameter >= 12 mm, and
\* every column proposal has an even count of bars, at least 4 and at most 14,
\* of a diameter in {16, 20, 25, 32}.
C11_CountsWithinPracticalBounds ==
    /\ (op = "find_bars" \/ BeamSucceeded) =>
          \A i \in DOMAIN res.proposals :
             /\ res.proposals[i].n >= 2
             /\ res.proposals[i].dia >= 12
             /\ \E k \in DOMAIN BAR_DIAMETERS : BAR_DIAMETERS[k] = res.proposals[i].dia
    /\ ColumnReturned =>
          \A i \in DOMAIN res.proposals :
             /\ res.proposals[i].n % 2 = 0
             /\ res.proposals[i].n >= 4
             /\ res.proposals[i].n <= 14
             /\ res.proposals[i].dia \in {16, 20, 25, 32}

\* A beam search that one bar of the largest diameter would cover, and that
\* returned proposals, none of them of that diameter.
C11_SingleBarRefused ==
    /\ op = "find_bars"
    /\ args.As_required_mm2 <= bar_area(32)
    /\ res.proposals # <<>>
    /\ \A i \in DOMAIN res.proposals : res.proposals[i].dia # 32

SlabReturned == op = "calculate_slab" /\ res.raised = "none"

\* a bending ratio of the slab is at or beyond 0.5, where xi is cut to 0.5
SlabMuBeyondLimit ==
    IF loc.is_one_way THEN loc.mu_span >= 50000000
    ELSE loc.mu_x >= 50000000 \/ loc.mu_y >= 50000000

\* the steel demand of the column, before the cut to As_max, is above As_max
ColDemandAboveMaximum == Max(loc.As_total, loc.As_min) > loc.As_max

ReportsFailure == "error" \in DOMAIN res /\ res.error = TRUE

\* C12: every evaluator reports a capacity that is exceeded as a structured
\* failure in its result: the beam evaluator when mu > mu_lim, the slab
\* evaluator when a bending ratio mu exceeds its limit, the column evaluator
\* when the steel demand exceeds As_max.
C12_RejectIsStructuredFailure ==
    /\ (BeamReturned /\ RatCmp(loc.mu.num, loc.mu.den, loc.mu_lim.num, loc.mu_lim.den) > 0)
          => ReportsFailure
    /\ (SlabReturned /\ SlabMuBeyondLimit) => ReportsFailure
    /\ (ColumnReturned /\ ColDemandAboveMaximum) => ReportsFailure

\* the call ended in the KeyError of a catalog lookup: nothing was computed
\* and no record was returned
FailedAtLookup ==
    /\ res = [raised |-> "KeyError"]
    /\ loc = [reached |-> "lookup"]

\* a name of the call in flight is not a key of the catalog it is looked up in
UnknownName ==
    CASE op = "calculate_beam_bending" ->
           \/ args.concrete \notin DOMAIN Beam_CONCRETE_GRADES
           \/ args.steel \notin DOMAIN Beam_STEEL_GRADES
      [] op = "calculate_shear" ->
           \/ args.concrete \notin DOMAIN Shear_CONCRETE_GRADES
           \/ args.steel \notin DOMAIN Shear_STEEL_GRADES
      [] op = "calculate_column" ->
           \/ args.concrete \notin DOMAIN Col_CONCRETE_GRADES
           \/ args.steel \notin DOMAIN Col_STEEL_GRADES
      [] op = "calculate_slab" ->
           \/ args.concrete \notin DOMAIN Slab_CONCRETE_GRADES
           \/ args.steel \notin DOMAIN Slab_STEEL_GRADES
      [] op = "select_beam" ->
           \/ args.steel_grade \notin DOMAIN Steel_STEEL_GRADES
           \/ args.series \notin DOMAIN PROFILES
      [] OTHER -> FALSE

\* C13: each of the five evaluators, called with a concrete grade, steel grade
\* or series name that is not a key of its catalog, fails with the error of
\* the lookup (an unknown-grade error: Python's KeyError) before anything is
\* computed, and returns no record; with known names it returns a record.
C13_UnknownNameFailsAtLookup ==
    (op \in {"calculate_beam_bending", "calculate_shear", "calculate_column",
             "calculate_slab", "select_beam"}) =>
        /\ UnknownName => FailedAtLookup
        /\ ~UnknownName => (res.raised = "none" /\ loc.reached # "lookup")

\* A slab call with a concrete grade that the beam catalog has and the slab
\* catalog has not, which failed at the lookup.
C13_SlabGradeUnknown ==
    /\ op = "calculate_slab"
    /\ args.concrete \in DOMAIN Beam_CONCRETE_GRADES
    /\ args.concrete \notin DOMAIN Slab_CONCRETE_GRADES
    /\ FailedAtLookup

\* the coefficient table that calculate_slab reads for a support type
TableOf(support_type) ==
    IF support_type = "all_fixed" THEN COEFF_ALL_FIXED ELSE COEFF_SIMPLY_SUPPORTED

\* C14: calculate_slab sets is_one_way exactly when ly/lx > 2.0 or the support
\* type is "one_way"; a one-way slab is designed on the span lx and a two-way
\* slab with the coefficients of interpolate_coeff.  With the default support
\* a ratio of 2.5 is one-way, a ratio of 1.4 two-way, a ratio of exactly 2.0
\* two-way.
C14_SlabClassification ==
    SlabReturned =>
        /\ res.is_one_way <=> (args.ly > 2 * args.lx \/ args.support_type = "one_way")
        /\ loc.is_one_way = res.is_one_way
        /\ res.is_one_way =>
              /\ "M_Ed_span_x" \in DOMAIN res
              /\ "alpha_x" \notin DOMAIN res
        /\ ~res.is_one_way =>
              /\ {"alpha_x", "alpha_y", "M_Ed_x", "M_Ed_y"} \subseteq DOMAIN res
              /\ "M_Ed_span_x" \notin DOMAIN res
              /\ <<loc.alpha_x, loc.alpha_y>>
                   = interpolate_coeff(TableOf(args.support_type), args.ly, args.lx)
        /\ args.support_type = "simply_supported" =>
              /\ 10 * args.ly = 25 * args.lx => res.is_one_way
              /\ 10 * args.ly = 14 * args.lx => ~res.is_one_way
              /\ args.ly = 2 * args.lx => ~res.is_one_way

\* A slab of ratio exactly 2.0 with the default support, designed two-way.
C14_RatioTwoIsTwoWay ==
    /\ SlabReturned
    /\ args.support_type = "simply_supported"
    /\ args.ly = 2 * args.lx
    /\ ~res.is_one_way
    /\ "alpha_x" \in DOMAIN res

\* the row of a table at the ratio k / 10, as interpolate_coeff returns it
RowOf(table, k) == <<table[k][1] * 10000, table[k][2] * 10000>>

\* C15: interpolate_coeff, for either table, returns exactly the tabulated
\* pair at every tabulated ratio 1.0, 1.1, ..., 2.0, the row of 1.0 for any
\* ratio below 1.0 and the row of 2.0 for any ratio above 2.0.
C15_TabulatedAndClamped ==
    op = "interpolate_coeff" =>
        /\ res.raised = "none"
        /\ \A k \in 10..20 :
              10 * args.ly = k * args.lx => res.coeffs = RowOf(TableOf(args.table), k)
        /\ args.ly < args.lx => res.coeffs = RowOf(TableOf(args.table), 10)
        /\ args.ly > 2 * args.lx => res.coeffs = RowOf(TableOf(args.table), 20)

\* A call with a ratio above 2.0 that returned the row of 2.0.
C15_AboveTableReturnsLastRow ==
    /\ op = "interpolate_coeff"
    /\ args.ly > 2 * args.lx
    /\ res.coeffs = RowOf(TableOf(args.table), 20)

\* the ratio ly / lx lies strictly between the tabulated k / 10 and (k + 1) / 10
StrictlyInside(k, ly, lx) == k * lx < 10 * ly /\ 10 * ly < (k + 1) * lx

\* v is c_low + t * (c_high - c_low) for t = (ratio - r_low) / (r_high - r_low),
\* to the last digit kept (1e-8), and lies strictly between c_low and c_high
InterpolatedBetween(v, c_low, c_high, k, ly, lx) ==
    /\ Min(c_low, c_high) < v
    /\ v < Max(c_low, c_high)
    /\ lx * (v - c_low) <= (10 * ly - k * lx) * (c_high - c_low)
    /\ (10 * ly - k * lx) * (c_high - c_low) < lx * (v - c_low + 1)

\* C16: for a ratio strictly between two adjacent tabulated ratios,
\* interpolate_coeff returns for each coefficient the linear interpolation of
\* the two nearest rows, which lies strictly between the two tabulated values;
\* over the ratios alpha_x never decreases and alpha_y never increases.
C16_LinearBetweenRows ==
    op = "interpolate_coeff" =>
        /\ \A k \in 10..19 :
              StrictlyInside(k, args.ly, args.lx) =>
                 \A i \in {1, 2} :
                    InterpolatedBetween(res.coeffs[i],
                                        RowOf(TableOf(args.table), k)[i],
                                        RowOf(TableOf(args.table), k + 1)[i],
                                        k, args.ly, args.lx)
        /\ \A ly2 \in 1..MaxCoeffSpan :
              ly2 >= args.ly =>
                 /\ interpolate_coeff(TableOf(args.table), ly2, args.lx)[1] >= res.coeffs[1]
                 /\ interpolate_coeff(TableOf(args.table), ly2, args.lx)[2] <= res.coeffs[2]

\* A call with a ratio strictly between 1.4 and 1.5.
C16_RatioInsideInterval ==
    /\ op = "interpolate_coeff"
    /\ StrictlyInside(14, args.ly, args.lx)
    /\ res.coeffs[1] > RowOf(TableOf(args.table), 14)[1]

\* C17: in calculate_column the required steel area is clamped between the
\* minimum and the maximum: As_min <= As_required <= As_max for all inputs,
\* with As_min = max(0.10 N_Ed / fyd, 0.002 Ac) and As_max = 0.04 Ac; before
\* the clamp the governing value is the larger of the moment and the
\* near-axial requirements when e_tot / h < 0.1, the moment form otherwise.
C17_RequiredAreaClamped ==
    ColumnReturned =>
        /\ loc.As_min <= loc.As_required
        /\ loc.As_required <= loc.As_max
        /\ loc.As_min = Max(MulDiv(1150000, args.N_Ed, loc.fyk), 20 * loc.Ac)
        /\ loc.As_max = 400 * loc.Ac
        /\ loc.As_total = IF 10 * loc.e_tot < 10000 * args.h
                          THEN Max(loc.As_from_N, loc.As_total_from_moment)
                          ELSE loc.As_total_from_moment

\* C17 without its lower bound: the parts of the sentence that hold
C17_CappedAtMaximum ==
    ColumnReturned =>
        /\ loc.As_required <= loc.As_max
        /\ loc.As_required = Min(Max(loc.As_total, loc.As_min), loc.As_max)
        /\ loc.As_min <= loc.As_max => loc.As_min <= loc.As_required
        /\ loc.As_total = IF 10 * loc.e_tot < 10000 * args.h
                          THEN Max(loc.As_from_N, loc.As_total_from_moment)
                          ELSE loc.As_total_from_moment

\* C18: in calculate_column, with the slenderness not above its limit e_2 is 0
\* and the total moment is N_Ed (e_1 + e_i); with the slenderness above it,
\* e_2 >= 0 comes from a curvature factor K_r within [0, 1]; in both cases
\* e_1 >= max(h / 30, 20 mm) and M_Ed_total = N_Ed (e_1 + e_i + e_2) / 1000.
C18_SecondOrderOnlyWhenSlender ==
    ColumnReturned =>
        /\ loc.second_order_needed <=> loc.lam > loc.lam_lim
        /\ res.second_order_needed = loc.second_order_needed
        /\ ~loc.second_order_needed =>
              /\ loc.e_2 = 0
              /\ loc.M_Ed_total = MulDiv(args.N_Ed, loc.e_1 + loc.e_i, 1000)
        /\ loc.second_order_needed =>
              /\ loc.e_2 >= 0
              /\ loc.K_r >= 0
              /\ loc.K_r <= 10000
              /\ loc.K_r = 0 => loc.e_2 = 0
        /\ loc.e_1 >= Max((args.h * 10000) \div 30, 200000)
        /\ loc.e_tot = loc.e_1 + loc.e_i + loc.e_2
        /\ loc.M_Ed_total = MulDiv(args.N_Ed, loc.e_tot, 1000)

\* A slender column with a second-order eccentricity.
C18_SlenderColumn ==
    /\ ColumnReturned
    /\ loc.second_order_needed
    /\ loc.e_2 > 0

\* A column that is not slender, whose K_r would give an eccentricity.
C18_StockyColumn ==
    /\ ColumnReturned
    /\ ~loc.second_order_needed
    /\ loc.K_r > 0
    /\ loc.e_2 = 0

SteelReturned == op = "select_beam" /\ res.raised = "none"

\* the profiles of the requested series
SeriesProfiles == {PROFILES[args.series][i] : i \in DOMAIN PROFILES[args.series]}

\* the profiles of the requested series that pass bending, deflection and
\* shear at once
PassingProfiles ==
    {p \in SeriesProfiles :
        /\ Steel_wply_ok(p, loc.fy, loc.q_Ed, args.span)
        /\ Steel_iy_ok(p, loc.q_char, args.span, args.deflection_limit)
        /\ Steel_shear_ok(p, loc.fy, loc.q_Ed, args.span)}

\* C19: select_beam returns only profiles of the requested series that pass
\* the three conditions at once (Wply >= Wply_req, Iy >= Iy_req,
\* V_Ed <= V_pl_Rd), in ascending mass and cut to 5: the first candidate is
\* the lightest passing profile of the series, and the list is empty exactly
\* when no profile of the series passes all three.
C19_LightestPassingProfiles ==
    SteelReturned =>
        /\ \A i \in DOMAIN res.candidates :
              \E p \in PassingProfiles :
                 /\ p.name = res.candidates[i].name
                 /\ p.mass = res.candidates[i].mass
        /\ \A i \in DOMAIN res.candidates : \A j \in DOMAIN res.candidates :
              i < j => res.candidates[i].mass < res.candidates[j].mass
        /\ Len(res.candidates) = Min(5, Cardinality(PassingProfiles))
        /\ \A p \in PassingProfiles :
              \/ \E i \in DOMAIN res.candidates : res.candidates[i].name = p.name
              \/ \A i \in DOMAIN res.candidates : res.candidates[i].mass <= p.mass
        /\ res.candidates # <<>> =>
              \A p \in PassingProfiles : res.candidates[1].mass <= p.mass
        /\ res.candidates = <<>> <=> PassingProfiles = {}

\* A search in which a lighter profile has the plastic modulus asked for and
\* is left out for its deflection, and more than five profiles pass.
C19_LighterProfileRefused ==
    /\ SteelReturned
    /\ Len(res.candidates) = 5
    /\ Cardinality(PassingProfiles) > 5
    /\ \E p \in SeriesProfiles :
          /\ p.mass < res.candidates[1].mass
          /\ Steel_wply_ok(p, loc.fy, loc.q_Ed, args.span)
          /\ ~Steel_iy_ok(p, loc.q_char, args.span, args.deflection_limit)

\* A search in which a profile passes bending and deflection and fails shear.
C19_ShearAloneRefuses ==
    /\ SteelReturned
    /\ \E p \in SeriesProfiles :
          /\ Steel_wply_ok(p, loc.fy, loc.q_Ed, args.span)
          /\ Steel_iy_ok(p, loc.q_char, args.span, args.deflection_limit)
          /\ ~Steel_shear_ok(p, loc.fy, loc.q_Ed, args.span)

\* the calls that returned earlier in this interpreter with the arguments of
\* the pending one
SeenBefore == {s \in seen : s.op = op /\ s.args = args}

ShearReturned == op = "calculate_shear" /\ res.raised = "none"

\* C21: in calculate_shear, whenever shear reinforcement is required
\* (V_Ed > V_Rd_c) and the section is safe (V_Ed <= V_Rd_max), the selected
\* stirrups provide at least the required intensity:
\* n_legs * pi * stirrup_dia^2 / 4 / s_required >= Asw_s.
C21_StirrupsCoverDemand ==
    (ShearReturned /\ loc.needs_shear_reinf /\ res.safe) =>
        /\ res.s_required > 0
        /\ res.n_legs * bar_area(res.stirrup_dia) * 100 >= loc.Asw_s * res.s_required

\* C22: in calculate_shear, whenever shear reinforcement is required, the
\* selected spacing respects the limits 50 mm <= s_required <= s_max with
\* s_max = min(0.75 * d, 600 mm).
C22_SpacingWithinLimits ==
    (ShearReturned /\ loc.needs_shear_reinf) =>
        /\ res.s_required >= 50
        /\ res.s_required * 10000 <= loc.s_max

\* the width between the stirrups of the call whose proposals are returned
BeamSpaceAvailable ==
    IF op = "find_bars" THEN args.b_mm - 2 * args.cover_mm - 2 * args.stirrup_dia
    ELSE args.b - 2 * args.cover - 2 * 8

BeamProposalsReturned == op = "find_bars" \/ BeamSucceeded

\* C23: every beam proposal returned by find_bars (called directly or by
\* calculate_beam_bending) fits the available width with the minimum clear
\* spacing: n*dia + (n-1)*max(25, dia) <= b - 2*cover - 2*stirrup_dia, and its
\* reported spacing is >= max(25 mm, dia).
C23_ProposalsFitWidth ==
    BeamProposalsReturned =>
        \A i \in DOMAIN res.proposals :
            LET p == res.proposals[i]
            IN  /\ p.n * p.dia + (p.n - 1) * Max(25, p.dia) <= BeamSpaceAvailable
                /\ p.spacing >= Max(25, p.dia) * 10000

\* A search that returns a proposal and leaves out a diameter whose bars would
\* fit the width only if they touched.
C23_DiameterRefusedForSpacing ==
    /\ op = "find_bars"
    /\ res.proposals # <<>>
    /\ \E dia \in {12, 16, 20, 25, 32} :
          LET n == Beam_n_required(args.As_required_mm2, bar_area(dia))
          IN  /\ n >= 2
              /\ n * dia <= BeamSpaceAvailable
              /\ ~Beam_fits(n, dia, BeamSpaceAvailable)

\* C24: on the success path of calculate_beam_bending the required area is
\* As_required = max(As_calc, As_min) with
\* As_min = max(0.26 * fctm / fyk * b * d, 0.0013 * b * d), and the flag
\* is_min_governing is true exactly when As_calc < As_min, that is exactly
\* when As_required equals As_min and differs from As_calc.
C24_MinimumGoverningFlag ==
    BeamSucceeded =>
        LET bd   == args.b * (args.h - args.cover - 18)
            conc == Beam_CONCRETE_GRADES[args.concrete]
            fyk  == Beam_STEEL_GRADES[args.steel].fyk
        IN  /\ loc.As_required = Max(loc.As_mm2, loc.As_min)
            /\ loc.As_min = Max(MulDiv(26 * conc.fctm, bd, fyk), 13 * bd)
            /\ res.is_min_governing <=> loc.As_mm2 < loc.As_min
            /\ res.is_min_governing <=>
                 (loc.As_required = loc.As_min /\ loc.As_required # loc.As_mm2)

\* a design in which the minimum area governs
C24_MinimumGoverns ==
    /\ BeamSucceeded
    /\ res.is_min_governing
    /\ loc.As_mm2 > 0

\* a design in which the calculated area governs
C24_CalculatedGoverns ==
    /\ BeamSucceeded
    /\ ~res.is_min_governing
    /\ loc.As_required > loc.As_min

\* the steel area of rho in the deflection check of the slab, 1e-4 mm2/m
SlabDeflectionArea == IF loc.is_one_way THEN loc.As_span ELSE Max(loc.As_x, loc.As_y)

\* rho_0 = 1e-3 * sqrt(fck) as the area rho_0 * b * d, 1e-4 mm2/m
SlabReferenceArea == Isqrt(loc.fck * 1000000) * loc.d_mm * 10

\* the divisor of the branch taken: rho, or rho - rho_0, as an area
SlabDeflectionDivisor ==
    IF SlabDeflectionArea <= SlabReferenceArea THEN SlabDeflectionArea
    ELSE SlabDeflectionArea - SlabReferenceArea

\* C25: in calculate_slab the permissible span-to-depth ratio Ld_basic is
\* computed from the branch rho <= rho_0 or rho > rho_0 and never divides by
\* zero (rho > 0, and rho - rho_0 > 0 in the second branch), it is capped at
\* 40 * K (K = 1.3 for all_fixed, 1.0 otherwise), and deflection_ok is true
\* exactly when the actual ratio L_eff / d is <= Ld_basic.
C25_DeflectionCheck ==
    SlabReturned =>
        /\ SlabDeflectionArea > 0
        /\ SlabDeflectionDivisor > 0
        /\ loc.K = IF args.support_type = "all_fixed" THEN 13 ELSE 10
        /\ loc.Ld_basic <= 40000 * loc.K
        /\ loc.Ld_basic >= 11000 * loc.K
        /\ SlabDeflectionArea <= SlabReferenceArea =>
             loc.Ld_basic >= Min(40000 * loc.K,
                                 (loc.K * (110000 + 15 * Isqrt(loc.fck * 1000000))) \div 10)
        /\ loc.Ld_actual =
             MulDiv((IF loc.is_one_way THEN args.lx ELSE Min(args.lx, args.ly)) * 100,
                    10000, loc.d_mm)
        /\ res.deflection_ok <=> loc.Ld_actual <= loc.Ld_basic

\* a slab below the reference ratio whose permissible ratio is cut to the ceiling
C25_BelowReferenceAtCeiling ==
    /\ SlabReturned
    /\ SlabDeflectionArea <= SlabReferenceArea
    /\ loc.Ld_basic = 40000 * loc.K
    /\ res.deflection_ok

\* a slab below the reference ratio whose permissible ratio is under the ceiling
C25_BelowReferenceUnderCeiling ==
    /\ SlabReturned
    /\ SlabDeflectionArea <= SlabReferenceArea
    /\ loc.Ld_basic < 40000 * loc.K
    /\ res.deflection_ok

\* a slab above the reference ratio whose permissible ratio is under the ceiling
C25_AboveReferenceUnderCeiling ==
    /\ SlabReturned
    /\ SlabDeflectionArea > SlabReferenceArea
    /\ loc.Ld_basic < 40000 * loc.K

\* the required area handed to the beam search of the call
BeamSearchedArea == IF op = "find_bars" THEN args.As_required_mm2 ELSE loc.As_required

\* some diameter >= 12 admits a count n >= 2 of bars that cover the required
\* area and fit the width at the minimum clear spacing; the least such count
\* of a diameter is max(2, ceil(required / area)), and a larger count needs
\* more width
BeamSomeCountFits ==
    \E i \in DOMAIN BAR_DIAMETERS :
        LET dia == BAR_DIAMETERS[i]
            n   == Max(2, CeilDiv(BeamSearchedArea, bar_area(dia)))
        IN  /\ dia >= 12
            /\ n * bar_area(dia) >= BeamSearchedArea
            /\ n * dia + (n - 1) * Max(25, dia) <= BeamSpaceAvailable

\* C26: beam search completeness: if some bar diameter >= 12 mm admits a count
\* n >= 2 such that n * bar_area >= required and n bars fit the available
\* width at minimum clear spacing, then find_bars returns a non-empty list (a
\* diameter for which a single bar would suffice is offered with 2 bars).
C26_SearchComplete ==
    (BeamProposalsReturned /\ BeamSomeCountFits) => res.proposals # <<>>

\* C27: capping the column requirement at As_max never produces an
\* under-designed proposal: every proposal returned by calculate_column has
\* an area of bars >= max(As_total, As_min), the demand before the cut, so
\* whenever that demand exceeds As_max the proposal list is empty.
C27_CapNeverUnderDesigns ==
    ColumnReturned =>
        /\ \A i \in DOMAIN res.proposals :
              AreaOfBars(res.proposals[i].n, res.proposals[i].dia)
                  >= Max(loc.As_total, loc.As_min)
        /\ ColDemandAboveMaximum => res.proposals = <<>>

\* a column whose demand is above As_max, whose requirement is cut to As_max,
\* and for which some count of bars reaches As_max within the spacing limit
C27_CappedDemandWithBarsAtMaximum ==
    /\ ColumnReturned
    /\ ColDemandAboveMaximum
    /\ loc.As_required = loc.As_max
    /\ res.proposals = <<>>
    /\ \E dia \in {16, 20, 25, 32}, k \in 2..7 :
          Col_accepts_above_maximum(2 * k, dia, loc.As_required, loc.As_max,
                                    args.b, args.cover)

\* xi_lim of the steel grade of the call, as a fraction
BeamXiLimOfCall ==
    Beam_xi_lim(Beam_STEEL_GRADES[args.steel].fyk, Beam_STEEL_GRADES[args.steel].Es)

\* C28: on the accepted path of calculate_beam_bending (0 <= mu <= mu_lim) the
\* argument 1 - 2 * mu of the square root is strictly positive for every steel
\* grade of the catalog, because mu_lim = xi_lim * (1 - 0.5 * xi_lim) < 0.5
\* with 0 < xi_lim < 1; hence 0 <= xi <= xi_lim and the call never fails with
\* a math domain error.
C28_RootArgumentPositive ==
    /\ \A s \in DOMAIN Beam_STEEL_GRADES :
          LET x == Beam_xi_lim(Beam_STEEL_GRADES[s].fyk, Beam_STEEL_GRADES[s].Es)
              m == Beam_mu_lim(Beam_STEEL_GRADES[s].fyk, Beam_STEEL_GRADES[s].Es)
          IN  /\ 0 < x.num /\ x.num < x.den
              /\ 0 < m.num /\ 2 * m.num < m.den
    /\ op = "calculate_beam_bending" =>
          /\ res.raised # "ValueError"
          /\ loc.reached # "sqrt"
    /\ BeamSucceeded =>
          /\ loc.mu.num >= 0
          /\ loc.mu.den > 2 * loc.mu.num
          /\ res.xi >= 0
          \* xi <= xi_lim, exactly: (1 - xi_lim)^2 <= 1 - 2 * mu
          /\ RatCmp((BeamXiLimOfCall.den - BeamXiLimOfCall.num)
                       * (BeamXiLimOfCall.den - BeamXiLimOfCall.num),
                    BeamXiLimOfCall.den * BeamXiLimOfCall.den,
                    loc.mu.den - 2 * loc.mu.num, loc.mu.den) <= 0
          \* and in the 1e-4 of the returned xi
          /\ (res.xi - 1) * BeamXiLimOfCall.den <= 10000 * BeamXiLimOfCall.num

\* an accepted design with mu above 0.25, in the upper half of the accepted range
C28_AcceptedNearTheLimit ==
    /\ BeamSucceeded
    /\ 4 * loc.mu.num > loc.mu.den
    /\ res.xi > 0

\* the names of the profiles of the series of the call that pass under the
\* loads g2, q2, the other arguments being those of the call
SteelFeasible(g2, q2) ==
    LET c == Steel_candidates(args.span, g2, q2, args.steel_grade, args.series,
                              args.deflection_limit)
    IN  {c[i].name : i \in DOMAIN c}

\* what select_beam returns for the loads g2, q2 and the other arguments of the call
SteelUnderLoads(g2, q2) ==
    select_beam(args.span, g2, q2, args.steel_grade, args.series, args.deflection_limit)

\* the pairs of loads of the calls that are at least the loads of the call
SteelLargerLoads ==
    {l \in Loads \X SteelLiveLoads : l[1] >= args.g /\ l[2] >= args.q}

\* C29: steel selection is monotone in the loads: for a fixed span, grade,
\* series and deflection limit, increasing g or q never enlarges the set of
\* feasible profiles, so the first candidate of select_beam never becomes
\* lighter, and once the candidate list is empty it stays empty for all
\* larger loads.
C29_MonotoneInLoads ==
    SteelReturned =>
        \A l \in SteelLargerLoads :
            /\ SteelFeasible(l[1], l[2]) \subseteq SteelFeasible(args.g, args.q)
            /\ res.candidates = <<>> => SteelUnderLoads(l[1], l[2]).candidates = <<>>
            /\ SteelUnderLoads(l[1], l[2]).candidates # <<>> =>
                 /\ res.candidates # <<>>
                 /\ SteelUnderLoads(l[1], l[2]).candidates[1].mass
                      >= res.candidates[1].mass

\* a call that returns candidates, with larger loads under which the first
\* candidate is heavier and still larger ones under which none is left
C29_HeavierThenNone ==
    /\ SteelReturned
    /\ res.candidates # <<>>
    /\ \E l \in SteelLargerLoads :
          /\ SteelUnderLoads(l[1], l[2]).candidates # <<>>
          /\ SteelUnderLoads(l[1], l[2]).candidates[1].mass > res.candidates[1].mass
    /\ \E l \in SteelLargerLoads : SteelUnderLoads(l[1], l[2]).candidates = <<>>

ConcreteEvaluators ==
    {"calculate_beam_bending", "calculate_shear", "calculate_column", "calculate_slab"}

\* the outcome of the two lookups at the head of an evaluator: KeyError, or
\* the strengths read
GradeLookup(concretes, steels, concrete, steel) ==
    IF concrete \notin DOMAIN concretes \/ steel \notin DOMAIN steels
    THEN <<"KeyError">>
    ELSE <<"found", concretes[concrete].fck, concretes[concrete].fctm, steels[steel].fyk>>

\* the outcome of the lookups of the evaluator "name" for the grades of the call
GradeLookupOf(name) ==
    CASE name = "calculate_beam_bending" ->
           GradeLookup(Beam_CONCRETE_GRADES, Beam_STEEL_GRADES, args.concrete, args.steel)
      [] name = "calculate_shear" ->
           GradeLookup(Shear_CONCRETE_GRADES, Shear_STEEL_GRADES, args.concrete, args.steel)
      [] name = "calculate_column" ->
           GradeLookup(Col_CONCRETE_GRADES, Col_STEEL_GRADES, args.concrete, args.steel)
      [] name = "calculate_slab" ->
           GradeLookup(Slab_CONCRETE_GRADES, Slab_STEEL_GRADES, args.concrete, args.steel)

\* C30: the material catalogs of the concrete evaluators agree: for the grade
\* names of a call, the lookups done by calculate_beam_bending,
\* calculate_shear, calculate_column and calculate_slab have the same outcome,
\* either all failing as unknown grade or all yielding the same f_ck, f_ctm
\* and f_yk, so a grade accepted by one evaluator is accepted by every other.
C30_CatalogsAgree ==
    op \in ConcreteEvaluators =>
        /\ (res.raised = "KeyError") <=> (GradeLookupOf(op) = <<"KeyError">>)
        /\ \A other \in ConcreteEvaluators : GradeLookupOf(other) = GradeLookupOf(op)

\* the half of C30 that holds: the evaluators that know the grades of a call
\* read the same strengths for them
C30_SameStrengthsWhereKnown ==
    op \in ConcreteEvaluators =>
        \A a, b \in ConcreteEvaluators :
            (GradeLookupOf(a) # <<"KeyError">> /\ GradeLookupOf(b) # <<"KeyError">>)
                => GradeLookupOf(a) = GradeLookupOf(b)

====
